---- MODULE Spec2Model ----
(***************************************************************************)
(* The streaming relay of hyperwhisper/server: the /deepgram/listen        *)
(* handler (metered hw_live_ keys and trial hw_trial_ keys), the two       *)
(* forwarding goroutines of a proxy session, the trial session timer, the  *)
(* usage tables they write and the administrative operations on keys and   *)
(* limits.                                                                 *)
(*                                                                         *)
(* Units.  Limits are whole seconds (INTEGER columns).  Durations stored   *)
(* in duration_seconds are DECIMAL(12,3): they are modelled in             *)
(* milliseconds.  A duration reported by the provider is a float64; it is  *)
(* modelled in ticks of 0.1 ms so that the "%.3f" rendering in finalize    *)
(* is a real rounding.  The clock `now` counts days.                       *)
(***************************************************************************)
EXTENDS Integers, Sequences, FiniteSets, TLC

\* ------------------------------------------------------------------ bounds
MaxRequests == 2          \* requests served in SpecAuth
MaxClientFrames == 2      \* client frames of the session in Spec
MaxProviderFrames == 2    \* provider frames of the session in Spec
MaxNow == 2               \* days the clock runs
MaxRegenerations == 1     \* re-provisionings of the trial key
MaxValuesPerKey == 2      \* values one name of a query string carries
MaxRefreshes == 4          \* refresh requests in SpecRefresh

\* time.Second against the millisecond resolution of DECIMAL(12,3)
MsPerSecond == 1000

\* Handler slots: a slot holds one request from its arrival to the return of
\* the handler and is then free for the next request.  Serial: the slots that
\* serve requests in the specifications below (one request at a time).
Requests == {1, 2}
Serial == {1}

\* ------------------------------------------------------------------ values
\* sql.NullTime columns: only their being NULL or set is ever read.
NullTime == [Valid |-> FALSE]
SetTime == [Valid |-> TRUE]
NullDecimal == [Valid |-> FALSE, Ms |-> 0]
NullString == [Valid |-> FALSE, String |-> ""]
StringOf(s) == [Valid |-> TRUE, String |-> s]

\* An API key string: its 8 or 9 character prefix, its length and the random
\* hex part (abstracted to a number).  Issued keys are prefix + 32 hex chars.
NoKey == [prefix |-> "", len |-> 0, id |-> 0]
LiveKey(i) == [prefix |-> "hw_live_", len |-> 40, id |-> i]
TrialKey(i) == [prefix |-> "hw_trial_", len |-> 41, id |-> i]
ShortLiveKey == [prefix |-> "hw_live_", len |-> 10, id |-> 0]
ShortTrialKey == [prefix |-> "hw_trial_", len |-> 12, id |-> 0]

\* What a client may put in api_key / X-API-Key: nothing, the issued keys,
\* well-formed keys that were never issued (id 0), and short strings.
PresentedKeys ==
    {NoKey, ShortLiveKey, ShortTrialKey, LiveKey(0), TrialKey(0), LiveKey(1)}
        \cup {TrialKey(i) : i \in 1..(1 + MaxRegenerations)}

\* Durations a provider message may carry, in ticks of 0.1 ms:
\* none, 0.0004 s, 1.2 s, 2.5 s.
DurationValues == {0, 4, 12000, 25000}

\* Byte lengths of the binary (audio) frames a client sends.
BinarySizes == {100, 60}

ClientFrames ==
    {[mt |-> "binary", len |-> n, text |-> ""] : n \in BinarySizes}
        \cup {[mt |-> "text", len |-> 22, text |-> "CloseStream"]}

CloseStreamFrame == [mt |-> "text", len |-> 22, text |-> "CloseStream"]

\* Provider frames: the Metadata message with a top-level duration, a Results
\* message (its top-level duration is the chunk's, not the session's) with or
\* without a duration in its nested metadata object, and a binary frame.
ProviderFrames ==
    {[mt |-> "text", type |-> "Metadata", duration |-> d,
      hasMetadata |-> FALSE, metadataDuration |-> 0] : d \in DurationValues}
        \cup {[mt |-> "text", type |-> "Results", duration |-> 25000,
               hasMetadata |-> TRUE, metadataDuration |-> 12000],
              [mt |-> "text", type |-> "Results", duration |-> 25000,
               hasMetadata |-> FALSE, metadataDuration |-> 0],
              [mt |-> "binary", type |-> "", duration |-> 0,
               hasMetadata |-> FALSE, metadataDuration |-> 0]}

\* Values an administrator may send to PUT /admin/trial/limits.
LimitChoices ==
    {[max_duration_seconds |-> 2, max_sessions |-> 2,
      max_session_duration_seconds |-> 2, expiry_days |-> 1],
     [max_duration_seconds |-> 3, max_sessions |-> 1,
      max_session_duration_seconds |-> 1, expiry_days |-> 1],
     [max_duration_seconds |-> 0, max_sessions |-> 1,
      max_session_duration_seconds |-> 1, expiry_days |-> 1]}

\* ------------------------------------------------------------------ state
VARIABLES
    now,                 \* wall clock (days)
    trial_api_keys,      \* the trial_api_keys row of the one device
    api_keys,            \* the api_keys row of the one user
    trial_limits,        \* the singleton trial_limits row
    trial_usage,         \* trial_usage rows, in insertion order
    transcription_logs,  \* transcription_logs rows, in insertion order
    regenerations,       \* trial keys generated so far (source of fresh ids)
    served,              \* requests that have arrived so far
    requestBudget,       \* requests the environment sends in all
    pc,                  \* per request: position of the handler
    apiKey,              \* per request: the key presented
    resp,                \* per request: the HTTP response / outcome
    kind,                \* per request: "metered" or "trial" once routed
    keyID,               \* per request: id of the key row it authenticated as
    logID,               \* per request: index of its usage row, 0 = none
    maxDuration,         \* session.maxDuration (ms), trial only
    bytesSent,           \* session.bytesSent
    duration,            \* session.duration (ticks)
    closed,              \* session.closed
    mu,                  \* session.mu: "free" or the task holding it
    c2d,                 \* goroutine client -> Deepgram
    c2dFrame,            \* the frame that goroutine is forwarding
    d2c,                 \* goroutine Deepgram -> client
    d2cFrame,            \* the frame that goroutine is forwarding
    clientClosed,        \* local flag of proxyDeepgramToClient
    timer,               \* time.AfterFunc callback of a trial session
    clientConn,          \* "none", "open", "gone" (peer left), "closed"
    deepgramConn,        \* likewise
    clientBudget,        \* client frames the environment may still send
    providerBudget,      \* provider frames the environment may still send
    toProvider,          \* history: frames written to the provider
    observed,            \* history: durations the provider reported, in order
    finalWrites,         \* history: terminal UPDATEs issued by finalize
    lateCapture,         \* history: a duration was read after a client write failed
    query,               \* per request: c.Request().URL.Query()
    upstream,            \* per request: the URL and headers given to dialer.Dial
    started,             \* history: dashboard sessions the user has started
    toClient,            \* history: frames written to the client
    tokens,              \* the tokens table, by token_jti
    refresh,             \* per request: position and answer of TokenRefresh
    refreshedWith,       \* history: successful refreshes per token_jti
    refreshBudget        \* refresh requests the clients may still send

dbVars == <<trial_api_keys, api_keys, trial_limits, regenerations>>
logVars == <<trial_usage, transcription_logs>>
reqVars == <<pc, apiKey, resp, kind, keyID, logID>>
sessVars == <<maxDuration, bytesSent, duration, closed, mu>>
loopVars == <<c2d, c2dFrame, d2c, d2cFrame, clientClosed>>
connVars == <<clientConn, deepgramConn>>
envVars == <<clientBudget, providerBudget, served, requestBudget>>
histVars == <<toProvider, observed, finalWrites, lateCapture>>
urlVars == <<query, upstream>>
dashVars == <<started, toClient>>
authVars == <<tokens, refresh, refreshedWith, refreshBudget>>
relayVars == <<now, dbVars, logVars, reqVars, sessVars, loopVars, timer, connVars,
               envVars, histVars, urlVars, dashVars>>
vars == <<relayVars, authVars>>

\* ------------------------------------------------------------------ helpers
Min(a, b) == IF a < b THEN a ELSE b
Max(a, b) == IF a > b THEN a ELSE b

RECURSIVE SumSeq(_)
\* The sum of a sequence of numbers.
SumSeq(s) == IF s = <<>> THEN 0 ELSE Head(s) + SumSeq(Tail(s))

\* sha256 + hex: a digest that identifies the key string (collision-free).
hashAPIKey(key) == <<"sha256", key.prefix, key.len, key.id>>
hashTrialAPIKey(key) == <<"sha256", key.prefix, key.len, key.id>>

\* len(apiKey) >= 9 && apiKey[:9] == "hw_trial_"
IsTrialKey(key) == key.len >= 9 /\ key.prefix = "hw_trial_"

\* ------------------------------------------------------------------ queries
NoRows == [found |-> FALSE, id |-> 0]

\* SELECT * FROM api_keys WHERE key_hash = $1 AND revoked_at IS NULL
GetAPIKeyByHash(h) ==
    LET m == {i \in DOMAIN api_keys :
                 api_keys[i].key_hash = h /\ ~api_keys[i].revoked_at.Valid}
    IN IF m = {} THEN NoRows ELSE [found |-> TRUE, id |-> CHOOSE i \in m : TRUE]

\* SELECT * FROM trial_api_keys WHERE key_hash = $1 AND revoked_at IS NULL
GetTrialAPIKeyByHash(h) ==
    LET m == {i \in DOMAIN trial_api_keys :
                 trial_api_keys[i].key_hash = h /\ ~trial_api_keys[i].revoked_at.Valid}
    IN IF m = {} THEN NoRows ELSE [found |-> TRUE, id |-> CHOOSE i \in m : TRUE]

DurationMs(row) == IF row.duration_seconds.Valid THEN row.duration_seconds.Ms ELSE 0

\* An aggregate over the sessions that have ended only.
GetTrialUsageSummary_ended(owner) ==
    LET mine(row) == row.trial_key_id = owner /\ row.ended_at.Valid
    IN [total_sessions |->
            SumSeq([i \in 1..Len(trial_usage) |->
                       IF mine(trial_usage[i]) THEN 1 ELSE 0]),
        total_duration_ms |->
            SumSeq([i \in 1..Len(trial_usage) |->
                       IF mine(trial_usage[i]) THEN DurationMs(trial_usage[i]) ELSE 0])]

\* COUNT(*) and COALESCE(SUM(duration_seconds), 0) FROM trial_usage
\* WHERE trial_key_id = $1
GetTrialUsageSummary(owner) ==
    LET mine(row) == row.trial_key_id = owner
    IN [total_sessions |->
            SumSeq([i \in 1..Len(trial_usage) |->
                       IF mine(trial_usage[i]) THEN 1 ELSE 0]),
        total_duration_ms |->
            SumSeq([i \in 1..Len(trial_usage) |->
                       IF mine(trial_usage[i]) THEN DurationMs(trial_usage[i]) ELSE 0])]

\* ... WHERE trial_key_id = $1 AND (status = 'completed' OR status = 'timeout')
GetTrialUsageSummaryActive(owner) ==
    LET mine(row) == row.trial_key_id = owner
                         /\ row.status \in {"completed", "timeout"}
    IN [total_sessions |->
            SumSeq([i \in 1..Len(trial_usage) |->
                       IF mine(trial_usage[i]) THEN 1 ELSE 0]),
        total_duration_ms |->
            SumSeq([i \in 1..Len(trial_usage) |->
                       IF mine(trial_usage[i]) THEN DurationMs(trial_usage[i]) ELSE 0])]

\* INSERT INTO trial_usage (trial_key_id, ...): status defaults to 'active'
CreateTrialUsageLog(owner) ==
    Append(trial_usage,
           [trial_key_id |-> owner, status |-> "active", ended_at |-> NullTime,
            duration_seconds |-> NullDecimal, error_message |-> NullString,
            bytes_sent |-> 0])

\* INSERT INTO transcription_logs (user_id, api_key_id, ...)
CreateTranscriptionLog(owner) ==
    Append(transcription_logs,
           [api_key_id |-> owner, status |-> "active", ended_at |-> NullTime,
            duration_seconds |-> NullDecimal, error_message |-> NullString,
            bytes_sent |-> 0])

\* UPDATE ... SET ended_at = NOW(), status = 'error', error_message = $2,
\* bytes_sent = $3 WHERE id = $1
UpdateUsageError(table, id, message, bytes) ==
    [table EXCEPT ![id] = [@ EXCEPT !.ended_at = SetTime, !.status = "error",
                                    !.error_message = StringOf(message),
                                    !.bytes_sent = bytes]]

\* UPDATE ... SET ended_at = NOW(), duration_seconds = $2, status = 'completed',
\* bytes_sent = $3 WHERE id = $1
UpdateUsageComplete(table, id, ms, bytes) ==
    [table EXCEPT ![id] = [@ EXCEPT !.ended_at = SetTime, !.status = "completed",
                                    !.duration_seconds = [Valid |-> TRUE, Ms |-> ms],
                                    !.bytes_sent = bytes]]

\* UPDATE ... SET ended_at = NOW(), status = 'timeout', bytes_sent = $2 WHERE id = $1
UpdateUsageTimeout(table, id, bytes) ==
    [table EXCEPT ![id] = [@ EXCEPT !.ended_at = SetTime, !.status = "timeout",
                                    !.bytes_sent = bytes]]

\* ------------------------------------------------------------------ admission
Rejected(response) ==
    [ok |-> FALSE, resp |-> response, kind |-> "", keyID |-> 0, sessionTimeout |-> 0]

\* A session timeout that is the per-session limit whatever remains.
SessionTimeout_flat(limits, remainingMs) ==
    limits.max_session_duration_seconds * MsPerSecond

\* sessionTimeout := MaxSessionDurationSeconds * time.Second; if remainingDuration
\* < float64(MaxSessionDurationSeconds) { time.Duration(remainingDuration) *
\* time.Second }: the float64 -> int64 conversion drops the fraction of a second.
SessionTimeout(limits, remainingMs) ==
    IF remainingMs < limits.max_session_duration_seconds * MsPerSecond
    THEN (remainingMs \div MsPerSecond) * MsPerSecond
    ELSE limits.max_session_duration_seconds * MsPerSecond

\* An admission that does not look at expires_at.
TrialAuthorize_unexpiring(key, configured) ==
    IF key.len < 16 THEN Rejected("500 panic: slice bounds out of range")
    ELSE LET found == GetTrialAPIKeyByHash(hashTrialAPIKey(key)) IN
    IF ~found.found THEN Rejected("401 invalid trial key")
    ELSE LET limits == trial_limits
             summary == GetTrialUsageSummary(found.id)
             remainingDuration ==
                 limits.max_duration_seconds * MsPerSecond - summary.total_duration_ms
             remainingSessions == limits.max_sessions - summary.total_sessions
         IN
    IF remainingDuration <= 0 \/ remainingSessions <= 0
    THEN Rejected("403 trial quota exceeded")
    ELSE IF ~configured THEN Rejected("500 Deepgram not configured")
    ELSE [ok |-> TRUE, resp |-> "", kind |-> "trial", keyID |-> found.id,
          sessionTimeout |-> SessionTimeout(limits, remainingDuration)]

\* An admission that lets a key with no session left start one more.
TrialAuthorize_oneMore(key, configured) ==
    IF key.len < 16 THEN Rejected("500 panic: slice bounds out of range")
    ELSE LET found == GetTrialAPIKeyByHash(hashTrialAPIKey(key)) IN
    IF ~found.found THEN Rejected("401 invalid trial key")
    ELSE LET trialKey == trial_api_keys[found.id]
             limits == trial_limits
             summary == GetTrialUsageSummary(found.id)
             remainingDuration ==
                 limits.max_duration_seconds * MsPerSecond - summary.total_duration_ms
             remainingSessions == limits.max_sessions - summary.total_sessions
         IN
    IF now > trialKey.expires_at THEN Rejected("403 trial key expired")
    ELSE IF trialKey.revoked_at.Valid THEN Rejected("403 trial key revoked")
    ELSE IF remainingDuration <= 0 \/ remainingSessions < 0
         THEN Rejected("403 trial quota exceeded")
    ELSE IF ~configured THEN Rejected("500 Deepgram not configured")
    ELSE [ok |-> TRUE, resp |-> "", kind |-> "trial", keyID |-> found.id,
          sessionTimeout |-> SessionTimeout(limits, remainingDuration)]

\* TrialDeepgramProxy up to (not including) CreateTrialUsageLog.
TrialAuthorize(key, configured) ==
    IF key.len < 16 THEN Rejected("500 panic: slice bounds out of range")
    ELSE LET found == GetTrialAPIKeyByHash(hashTrialAPIKey(key)) IN
    IF ~found.found THEN Rejected("401 invalid trial key")
    ELSE LET trialKey == trial_api_keys[found.id]
             limits == trial_limits
             summary == GetTrialUsageSummary(found.id)
             remainingDuration ==
                 limits.max_duration_seconds * MsPerSecond - summary.total_duration_ms
             remainingSessions == limits.max_sessions - summary.total_sessions
         IN
    IF now > trialKey.expires_at THEN Rejected("403 trial key expired")
    ELSE IF trialKey.revoked_at.Valid THEN Rejected("403 trial key revoked")
    ELSE IF remainingDuration <= 0 \/ remainingSessions <= 0
         THEN Rejected("403 trial quota exceeded")
    ELSE IF ~configured THEN Rejected("500 Deepgram not configured")
    ELSE [ok |-> TRUE, resp |-> "", kind |-> "trial", keyID |-> found.id,
          sessionTimeout |-> SessionTimeout(limits, remainingDuration)]

\* DeepgramProxy for a non-trial key, up to (not including) CreateTranscriptionLog.
MeteredAuthorize(key, configured) ==
    IF key.len < 12 THEN Rejected("500 panic: slice bounds out of range")
    ELSE LET found == GetAPIKeyByHash(hashAPIKey(key)) IN
    IF ~found.found THEN Rejected("401 invalid API key")
    ELSE IF ~configured THEN Rejected("500 Deepgram not configured")
    ELSE [ok |-> TRUE, resp |-> "", kind |-> "metered", keyID |-> found.id,
          sessionTimeout |-> 0]

\* The routing at the head of DeepgramProxy.
Authorize(key, configured) ==
    IF key.len = 0 THEN Rejected("401 API key required")
    ELSE IF IsTrialKey(key) THEN TrialAuthorize(key, configured)
    ELSE MeteredAuthorize(key, configured)

\* The duration a provider frame reports, as the provider's protocol defines
\* it: the top-level duration of a Metadata message, or the duration inside
\* the metadata object of any message; none when that value is absent or zero.
ReportedDuration(frame) ==
    IF frame.mt # "text" THEN <<>>
    ELSE IF frame.hasMetadata /\ frame.metadataDuration # 0
         THEN <<frame.metadataDuration>>
    ELSE IF frame.type = "Metadata" /\ frame.duration # 0 THEN <<frame.duration>>
    ELSE <<>>

\* ------------------------------------------------------------------ initial state
NoClientFrame == [mt |-> "none", len |-> 0, text |-> ""]
NoProviderFrame ==
    [mt |-> "none", type |-> "", duration |-> 0, hasMetadata |-> FALSE,
     metadataDuration |-> 0]

InitDB ==
    /\ now = 0
    /\ trial_api_keys =
           [i \in {1} |-> [key_hash |-> hashTrialAPIKey(TrialKey(1)),
                           device_fingerprint |-> "device",
                           expires_at |-> 1, revoked_at |-> NullTime]]
    /\ api_keys = [i \in {1} |-> [key_hash |-> hashAPIKey(LiveKey(1)),
                                  revoked_at |-> NullTime]]
    /\ trial_limits = [max_duration_seconds |-> 2, max_sessions |-> 2,
                       max_session_duration_seconds |-> 2, expiry_days |-> 1]
    /\ trial_usage = <<>>
    /\ transcription_logs = <<>>
    /\ regenerations = 1

\* ------------------------------------------------------------------ the upstream URL
\* Texts are sequences of tokens; "&", "=" and "?" are the separators of a
\* query string, "%26", "%3D" and "%3F" their escaped forms.

\* The whitelist of extractDeepgramParams.
allowedParams ==
    <<"model", "language", "encoding", "sample_rate", "channels",
      "punctuate", "diarize", "smart_format", "interim_results",
      "utterances", "vad_events", "filler_words", "multichannel",
      "alternatives", "numerals", "profanity_filter", "redact",
      "search", "replace", "keywords", "endpointing", "tier",
      "detect_entities", "dictation", "utterance_end_ms", "version">>

\* The byte order of the names, in which url.Values.Encode writes the keys.
KeyOrder ==
    <<"alternatives", "api_key", "callback", "channels", "detect_entities",
      "diarize", "dictation", "encoding", "endpointing", "filler_words",
      "interim_results", "keywords", "language", "model", "multichannel",
      "numerals", "profanity_filter", "punctuate", "redact", "replace",
      "sample_rate", "search", "smart_format", "tier", "utterance_end_ms",
      "utterances", "vad_events", "version">>

\* os.Getenv("DEEPGRAM_API_KEY") and the credential a client presents.
DEEPGRAM_API_KEY == "dg_secret"
ClientCredential == <<"hw_live_client">>

\* The names an inbound query string carries: two of the whitelist, the
\* client's credential and a name the whitelist does not hold.
QueryNames == {"model", "language", "api_key", "callback"}

\* The values of a whitelisted name: empty, or a text that tries to add a
\* parameter of its own.
ParamValues == {<<>>, <<"en", "&", "callback", "=", "x">>}

\* url.Values holds a list of values per name; an absent name has none.
ValueLists == UNION {[1..n -> ParamValues] : n \in 0..MaxValuesPerKey}

InboundQueries ==
    {q \in [QueryNames -> ValueLists \cup {<<ClientCredential>>, <<<<"x">>>>}] :
         /\ q["model"] \in ValueLists
         /\ q["language"] \in ValueLists
         /\ q["api_key"] \in {<<>>, <<ClientCredential>>}
         /\ q["callback"] \in {<<>>, <<<<"x">>>>}}

NoQuery == [n \in QueryNames |-> <<>>]
NoUpstream == [url |-> <<>>, Authorization |-> <<>>]

\* url.Values.Get: the first value of the name, "" if it has none.
Get(q, name) ==
    IF name \in DOMAIN q /\ q[name] # <<>> THEN q[name][1] ELSE <<>>

Range(seq) == {seq[i] : i \in DOMAIN seq}

\* An extraction that copies every parameter of the request that has a value.
extractDeepgramParams_all(q) ==
    [name \in {n \in DOMAIN q : Get(q, n) # <<>>} |-> Get(q, name)]

extractDeepgramParams(q) ==
    [name \in {n \in Range(allowedParams) : Get(q, n) # <<>>} |-> Get(q, name)]

\* url.QueryEscape, on the separators of a query string.
QueryEscape(text) ==
    [i \in DOMAIN text |-> CASE text[i] = "&" -> "%26"
                             [] text[i] = "=" -> "%3D"
                             [] text[i] = "?" -> "%3F"
                             [] OTHER -> text[i]]

\* url.Values.Encode: key=value pairs, escaped, joined by "&" in key order.
Encode(params) ==
    LET keys == SelectSeq(KeyOrder, LAMBDA k : k \in DOMAIN params)
        Pair(k) == QueryEscape(<<k>>) \o <<"=">> \o QueryEscape(params[k])
        RECURSIVE Join(_)
        Join(i) == IF i > Len(keys) THEN <<>>
                   ELSE IF i = Len(keys) THEN Pair(keys[i])
                   ELSE Pair(keys[i]) \o <<"&">> \o Join(i + 1)
    IN Join(1)

buildDeepgramURL(params) ==
    LET base == <<"wss://api.deepgram.com/v1/listen">>
    IN IF DOMAIN params = {} THEN base ELSE base \o <<"?">> \o Encode(params)

\* The URL and the Authorization header of the handler's dialer.Dial call.
DialUpstream(r) ==
    /\ upstream[r] = NoUpstream
    /\ upstream' = [upstream EXCEPT ![r] =
                       [url |-> buildDeepgramURL(extractDeepgramParams(query[r])),
                        Authorization |-> <<"Token ", DEEPGRAM_API_KEY>>]]
    /\ UNCHANGED <<now, dbVars, logVars, reqVars, sessVars, loopVars, timer,
                   connVars, envVars, histVars, query, dashVars, authVars>>

InitQuery ==
    /\ query = [r \in Requests |-> NoQuery]
    /\ upstream = [r \in Requests |-> NoUpstream]

\* ------------------------------------------------------------------ refresh tokens
\* The tokens table by token_jti: a refresh token the server signed has a
\* row ("stored", "revoked") or, when CreateRefreshToken failed, none
\* ("absent"); the JWT itself is valid either way.
IdleRefresh == [pc |-> "idle", jti |-> 0, resp |-> ""]

\* SELECT EXISTS(SELECT 1 FROM tokens WHERE token_jti = $1 AND revoked_at IS NOT NULL)
IsRefreshTokenRevoked(jti) == tokens[jti] = "revoked"

\* UPDATE tokens SET revoked_at = NOW(), revoked_reason = $2 WHERE token_jti = $1
RevokeRefreshToken(table, jti) ==
    [table EXCEPT ![jti] = IF @ = "absent" THEN "absent" ELSE "revoked"]

\* storeRefreshToken: CreateRefreshToken for the new token, which may fail.
storeRefreshToken(table, ok) == Append(table, IF ok THEN "stored" ELSE "absent")

\* TokenRefresh up to the revocation check: the token of the cookie or the
\* body is a token the server signed (claims.ID = jti); a revoked one is
\* answered 401.
TokenRefreshCheck(r) ==
    /\ refresh[r].pc \in {"idle", "done"}
    /\ refreshBudget > 0
    /\ refreshBudget' = refreshBudget - 1
    /\ \E jti \in DOMAIN tokens :
          refresh' = [refresh EXCEPT ![r] =
                         IF IsRefreshTokenRevoked(jti)
                         THEN [pc |-> "done", jti |-> jti,
                               resp |-> "401 token has been revoked"]
                         ELSE [pc |-> "checked", jti |-> jti, resp |-> ""]]
    /\ UNCHANGED <<relayVars, tokens, refreshedWith>>

\* GenerateTokenPair, then RevokeRefreshToken for the old token, its error
\* ignored.
TokenRefreshRevoke(r) ==
    /\ refresh[r].pc = "checked"
    /\ tokens' = RevokeRefreshToken(tokens, refresh[r].jti)
    /\ refresh' = [refresh EXCEPT ![r].pc = "revoked"]
    /\ UNCHANGED <<relayVars, refreshBudget, refreshedWith>>

\* storeRefreshToken for the new pair, its error ignored; cookies are set and
\* 200 with the new access token is answered.
TokenRefreshRespond(r) ==
    /\ refresh[r].pc = "revoked"
    /\ \E ok \in BOOLEAN : tokens' = storeRefreshToken(tokens, ok)
    /\ refresh' = [refresh EXCEPT ![r].pc = "done", ![r].resp = "200"]
    /\ refreshedWith' = [refreshedWith EXCEPT ![refresh[r].jti] = @ + 1] \o <<0>>
    /\ UNCHANGED <<relayVars, refreshBudget>>

TokenRefresh(r) ==
    \/ TokenRefreshCheck(r)
    \/ TokenRefreshRevoke(r)
    \/ TokenRefreshRespond(r)

\* No refresh request is being served.
InitNoRefresh ==
    /\ tokens = <<>>
    /\ refresh = [r \in Requests |-> IdleRefresh]
    /\ refreshedWith = <<>>
    /\ refreshBudget = 0

InitDash ==
    /\ started = 0
    /\ toClient = [r \in Requests |-> <<>>]

InitRequests ==
    /\ pc = [r \in Requests |-> "new"]
    /\ apiKey = [r \in Requests |-> NoKey]
    /\ resp = [r \in Requests |-> ""]
    /\ kind = [r \in Requests |-> ""]
    /\ keyID = [r \in Requests |-> 0]
    /\ logID = [r \in Requests |-> 0]
    /\ maxDuration = [r \in Requests |-> 0]
    /\ bytesSent = [r \in Requests |-> 0]
    /\ duration = [r \in Requests |-> 0]
    /\ closed = [r \in Requests |-> FALSE]
    /\ mu = [r \in Requests |-> "free"]
    /\ c2d = [r \in Requests |-> "idle"]
    /\ c2dFrame = [r \in Requests |-> NoClientFrame]
    /\ d2c = [r \in Requests |-> "idle"]
    /\ d2cFrame = [r \in Requests |-> NoProviderFrame]
    /\ clientClosed = [r \in Requests |-> FALSE]
    /\ timer = [r \in Requests |-> "none"]
    /\ clientConn = [r \in Requests |-> "none"]
    /\ deepgramConn = [r \in Requests |-> "none"]
    /\ toProvider = [r \in Requests |-> <<>>]
    /\ observed = [r \in Requests |-> <<>>]
    /\ finalWrites = [r \in Requests |-> 0]
    /\ lateCapture = [r \in Requests |-> FALSE]

\* Spec: the life of one request, with up to MaxClientFrames and
\* MaxProviderFrames frames from the peers.
Init ==
    /\ InitDB
    /\ InitRequests
    /\ InitQuery
    /\ InitDash
    /\ InitNoRefresh
    /\ served = 0
    /\ requestBudget = 1
    /\ clientBudget = MaxClientFrames
    /\ providerBudget = MaxProviderFrames

\* ------------------------------------------------------------------ the handler
\* DeepgramProxy / TrialDeepgramProxy from the request's arrival (in a free
\* slot, whose previous session is gone) to the rejection, or to the point
\* where the usage row is about to be inserted.
DeepgramProxy(r) ==
    /\ pc[r] \in {"new", "responded", "done"}
    /\ timer[r] \notin {"writing", "closing"}
    /\ served < requestBudget
    /\ served' = served + 1
    /\ \E key \in PresentedKeys, configured \in BOOLEAN :
          LET out == Authorize(key, configured) IN
          /\ apiKey' = [apiKey EXCEPT ![r] = key]
          /\ pc' = [pc EXCEPT ![r] = IF out.ok THEN "authorized" ELSE "responded"]
          /\ resp' = [resp EXCEPT ![r] = out.resp]
          /\ kind' = [kind EXCEPT ![r] = out.kind]
          /\ keyID' = [keyID EXCEPT ![r] = out.keyID]
          /\ maxDuration' = [maxDuration EXCEPT ![r] = out.sessionTimeout]
    /\ logID' = [logID EXCEPT ![r] = 0]
    /\ bytesSent' = [bytesSent EXCEPT ![r] = 0]
    /\ duration' = [duration EXCEPT ![r] = 0]
    /\ closed' = [closed EXCEPT ![r] = FALSE]
    /\ c2d' = [c2d EXCEPT ![r] = "idle"]
    /\ d2c' = [d2c EXCEPT ![r] = "idle"]
    /\ clientClosed' = [clientClosed EXCEPT ![r] = FALSE]
    /\ timer' = [timer EXCEPT ![r] = "none"]
    /\ clientConn' = [clientConn EXCEPT ![r] = "none"]
    /\ deepgramConn' = [deepgramConn EXCEPT ![r] = "none"]
    /\ toProvider' = [toProvider EXCEPT ![r] = <<>>]
    /\ observed' = [observed EXCEPT ![r] = <<>>]
    /\ finalWrites' = [finalWrites EXCEPT ![r] = 0]
    /\ lateCapture' = [lateCapture EXCEPT ![r] = FALSE]
    /\ toClient' = [toClient EXCEPT ![r] = <<>>]
    /\ UNCHANGED <<now, authVars, urlVars, started, dbVars, logVars, mu, c2dFrame, d2cFrame,
                   clientBudget, providerBudget, requestBudget>>

\* CreateTrialUsageLog / CreateTranscriptionLog: the row is inserted before
\* the upgrade and before the dial.
CreateUsageLog(r) ==
    /\ pc[r] = "authorized"
    /\ IF kind[r] = "trial"
       THEN /\ trial_usage' = CreateTrialUsageLog(keyID[r])
            /\ logID' = [logID EXCEPT ![r] = Len(trial_usage) + 1]
            /\ UNCHANGED transcription_logs
       ELSE /\ transcription_logs' = CreateTranscriptionLog(keyID[r])
            /\ logID' = [logID EXCEPT ![r] = Len(transcription_logs) + 1]
            /\ UNCHANGED trial_usage
    /\ pc' = [pc EXCEPT ![r] = "logged"]
    /\ UNCHANGED <<now, authVars, urlVars, dashVars, dbVars, apiKey, resp, kind, keyID, sessVars,
                   loopVars, timer, connVars, envVars, histVars>>

\* The row of request r marked 'error' (UpdateTrialUsageError /
\* UpdateTranscriptionLogError with BytesSent: 0).
RecordError(r, message) ==
    IF kind[r] = "trial"
    THEN /\ trial_usage' = UpdateUsageError(trial_usage, logID[r], message, 0)
         /\ UNCHANGED transcription_logs
    ELSE /\ transcription_logs' =
                UpdateUsageError(transcription_logs, logID[r], message, 0)
         /\ UNCHANGED trial_usage

\* h.upgrader.Upgrade: on failure the row becomes 'error' and the handler returns.
Upgrade(r) ==
    /\ pc[r] = "logged"
    /\ \E ok \in BOOLEAN :
          IF ok
          THEN /\ clientConn' = [clientConn EXCEPT ![r] = "open"]
               /\ pc' = [pc EXCEPT ![r] = "upgraded"]
               /\ UNCHANGED <<resp, logVars>>
          ELSE /\ RecordError(r, "websocket upgrade failed")
               /\ pc' = [pc EXCEPT ![r] = "responded"]
               /\ resp' = [resp EXCEPT ![r] = "upgrade failed"]
               /\ UNCHANGED clientConn
    /\ UNCHANGED <<now, authVars, urlVars, dashVars, dbVars, apiKey, kind, keyID, logID, sessVars,
                   loopVars, timer, deepgramConn, envVars, histVars>>

\* run(): wg.Add(2), the two goroutines started; a trial session also arms
\* time.AfterFunc(s.maxDuration, closeWithTimeout).
RunStart(r) ==
    /\ c2d' = [c2d EXCEPT ![r] = "read"]
    /\ d2c' = [d2c EXCEPT ![r] = "read"]
    /\ timer' = [timer EXCEPT ![r] = IF kind[r] = "trial" THEN "armed" ELSE "none"]

\* A dial whose failure leaves the row as it was inserted.
Dial_unrecorded(r) ==
    /\ pc[r] = "upgraded"
    /\ \E ok \in BOOLEAN :
          IF ok
          THEN /\ deepgramConn' = [deepgramConn EXCEPT ![r] = "open"]
               /\ RunStart(r)
               /\ pc' = [pc EXCEPT ![r] = "running"]
               /\ UNCHANGED <<resp, logVars, clientConn>>
          ELSE /\ clientConn' = [clientConn EXCEPT ![r] = "closed"]
               /\ pc' = [pc EXCEPT ![r] = "responded"]
               /\ resp' = [resp EXCEPT ![r] = "1011 Failed to connect to Deepgram"]
               /\ UNCHANGED <<logVars, deepgramConn, c2d, d2c, timer>>
    /\ UNCHANGED <<now, authVars, urlVars, dashVars, dbVars, apiKey, kind, keyID, logID, sessVars,
                   c2dFrame, d2cFrame, clientClosed, envVars, histVars>>

\* dialer.Dial: on failure the row becomes 'error', the client gets a close
\* message and the deferred clientConn.Close() runs; on success the session
\* struct is built (bytesSent: 0, duration: 0) and session.run() starts.
Dial(r) ==
    /\ pc[r] = "upgraded"
    /\ \E ok \in BOOLEAN :
          IF ok
          THEN /\ deepgramConn' = [deepgramConn EXCEPT ![r] = "open"]
               /\ RunStart(r)
               /\ pc' = [pc EXCEPT ![r] = "running"]
               /\ UNCHANGED <<resp, logVars, clientConn>>
          ELSE /\ RecordError(r, "deepgram connection failed")
               /\ clientConn' = [clientConn EXCEPT ![r] = "closed"]
               /\ pc' = [pc EXCEPT ![r] = "responded"]
               /\ resp' = [resp EXCEPT ![r] = "1011 Failed to connect to Deepgram"]
               /\ UNCHANGED <<deepgramConn, c2d, d2c, timer>>
    /\ UNCHANGED <<now, authVars, urlVars, dashVars, dbVars, apiKey, kind, keyID, logID, sessVars,
                   c2dFrame, d2cFrame, clientClosed, envVars, histVars>>

\* ------------------------------------------------------------------ the peers
\* The client goes away (closes or loses its connection).
ClientDisconnect(r) ==
    /\ clientConn[r] = "open"
    /\ clientConn' = [clientConn EXCEPT ![r] = "gone"]
    /\ UNCHANGED <<now, authVars, urlVars, dashVars, dbVars, logVars, reqVars, sessVars, loopVars, timer,
                   deepgramConn, envVars, histVars>>

\* The provider closes its connection.
ProviderClose(r) ==
    /\ deepgramConn[r] = "open"
    /\ deepgramConn' = [deepgramConn EXCEPT ![r] = "gone"]
    /\ UNCHANGED <<now, authVars, urlVars, dashVars, dbVars, logVars, reqVars, sessVars, loopVars, timer,
                   clientConn, envVars, histVars>>

\* WriteMessage on a connection: it succeeds on an open one, fails on one
\* closed locally, and may do either once the peer has gone.
WriteResults(c) ==
    IF c = "open" THEN {TRUE} ELSE IF c = "gone" THEN {TRUE, FALSE} ELSE {FALSE}

\* ------------------------------------------------------------------ client -> Deepgram
\* One ReadMessage of proxyClientToDeepgram that returns a frame: a binary
\* frame's length is added to bytesSent under the mutex, before it is forwarded.
ClientToDeepgramRead(r) ==
    /\ c2d[r] = "read"
    /\ clientConn[r] = "open"
    /\ clientBudget > 0
    /\ mu[r] = "free"
    /\ \E f \in ClientFrames :
          /\ bytesSent' = [bytesSent EXCEPT ![r] =
                              IF f.mt = "binary" THEN @ + f.len ELSE @]
          /\ c2dFrame' = [c2dFrame EXCEPT ![r] = f]
    /\ c2d' = [c2d EXCEPT ![r] = "write"]
    /\ clientBudget' = clientBudget - 1
    /\ UNCHANGED <<now, authVars, urlVars, dashVars, dbVars, logVars, reqVars, maxDuration, duration, closed, mu,
                   d2c, d2cFrame, clientClosed, timer, connVars, providerBudget,
                   served, requestBudget, histVars>>

\* A downstream goroutine that returns from a failed read without a word to
\* the provider.
ClientToDeepgramReadError_silent(r) ==
    /\ c2d[r] = "read"
    /\ clientConn[r] \in {"gone", "closed"}
    /\ c2d' = [c2d EXCEPT ![r] = "exited"]
    /\ UNCHANGED <<now, authVars, urlVars, dashVars, dbVars, logVars, reqVars, sessVars, c2dFrame, d2c, d2cFrame,
                   clientClosed, timer, connVars, envVars, histVars>>

\* ReadMessage fails (client gone, or the connection closed under the loop):
\* one CloseStream text frame is written to Deepgram, its result ignored, and
\* the goroutine returns.
ClientToDeepgramReadError(r) ==
    /\ c2d[r] = "read"
    /\ clientConn[r] \in {"gone", "closed"}
    /\ \E ok \in WriteResults(deepgramConn[r]) :
          toProvider' = [toProvider EXCEPT ![r] =
                            IF ok THEN Append(@, CloseStreamFrame) ELSE @]
    /\ c2d' = [c2d EXCEPT ![r] = "exited"]
    /\ UNCHANGED <<now, authVars, urlVars, dashVars, dbVars, logVars, reqVars, sessVars, c2dFrame, d2c, d2cFrame,
                   clientClosed, timer, connVars, envVars, observed, finalWrites,
                   lateCapture>>

\* A downstream goroutine that closes the client connection once it has
\* forwarded the sentinel.
ClientToDeepgramWrite_closing(r) ==
    /\ c2d[r] = "write"
    /\ \E ok \in WriteResults(deepgramConn[r]) :
          /\ toProvider' = [toProvider EXCEPT ![r] =
                               IF ok THEN Append(@, c2dFrame[r]) ELSE @]
          /\ c2d' = [c2d EXCEPT ![r] = IF ok THEN "read" ELSE "exited"]
    /\ clientConn' = [clientConn EXCEPT ![r] =
                         IF c2dFrame[r] = CloseStreamFrame THEN "closed" ELSE @]
    /\ c2dFrame' = [c2dFrame EXCEPT ![r] = NoClientFrame]
    /\ UNCHANGED <<now, authVars, urlVars, dashVars, dbVars, logVars, reqVars, sessVars, d2c, d2cFrame,
                   clientClosed, timer, deepgramConn, envVars, observed, finalWrites,
                   lateCapture>>

\* s.deepgramConn.WriteMessage(messageType, data): on error the goroutine returns.
ClientToDeepgramWrite(r) ==
    /\ c2d[r] = "write"
    /\ \E ok \in WriteResults(deepgramConn[r]) :
          /\ toProvider' = [toProvider EXCEPT ![r] =
                               IF ok THEN Append(@, c2dFrame[r]) ELSE @]
          /\ c2d' = [c2d EXCEPT ![r] = IF ok THEN "read" ELSE "exited"]
    /\ c2dFrame' = [c2dFrame EXCEPT ![r] = NoClientFrame]
    /\ UNCHANGED <<now, authVars, urlVars, dashVars, dbVars, logVars, reqVars, sessVars, d2c, d2cFrame,
                   clientClosed, timer, connVars, envVars, observed, finalWrites,
                   lateCapture>>

\* ------------------------------------------------------------------ Deepgram -> client
\* An extraction that keeps the first duration it captured.
extractDurationFromResponse_first(frame, current) ==
    LET top == IF frame.type = "Metadata" /\ frame.duration > 0
               THEN frame.duration ELSE current
    IN IF current > 0 THEN current
       ELSE IF frame.hasMetadata /\ frame.metadataDuration > 0
            THEN frame.metadataDuration ELSE top

\* extractDurationFromResponse: the value s.duration holds after `frame`.
extractDurationFromResponse(frame, current) ==
    LET top == IF frame.type = "Metadata" /\ frame.duration > 0
               THEN frame.duration ELSE current
    IN IF frame.hasMetadata /\ frame.metadataDuration > 0
       THEN frame.metadataDuration ELSE top

\* One ReadMessage of proxyDeepgramToClient that returns a frame: a text frame
\* goes through extractDurationFromResponse; the frame is then forwarded unless
\* clientClosed is set.
DeepgramToClientRead(r) ==
    /\ d2c[r] = "read"
    /\ deepgramConn[r] = "open"
    /\ providerBudget > 0
    /\ mu[r] = "free"
    /\ \E f \in ProviderFrames :
          /\ duration' = [duration EXCEPT ![r] =
                             IF f.mt = "text"
                             THEN extractDurationFromResponse(f, @) ELSE @]
          /\ observed' = [observed EXCEPT ![r] = @ \o ReportedDuration(f)]
          /\ lateCapture' = [lateCapture EXCEPT ![r] =
                                 @ \/ (clientClosed[r] /\ ReportedDuration(f) # <<>>)]
          /\ IF clientClosed[r]
             THEN UNCHANGED <<d2c, d2cFrame>>
             ELSE /\ d2c' = [d2c EXCEPT ![r] = "write"]
                  /\ d2cFrame' = [d2cFrame EXCEPT ![r] = f]
    /\ providerBudget' = providerBudget - 1
    /\ UNCHANGED <<now, authVars, urlVars, dashVars, dbVars, logVars, reqVars, maxDuration, bytesSent, closed, mu,
                   c2d, c2dFrame, clientClosed, timer, connVars, clientBudget,
                   served, requestBudget, toProvider, finalWrites>>

\* ReadMessage on the Deepgram connection fails: the goroutine returns.
DeepgramToClientReadError(r) ==
    /\ d2c[r] = "read"
    /\ deepgramConn[r] \in {"gone", "closed"}
    /\ d2c' = [d2c EXCEPT ![r] = "exited"]
    /\ UNCHANGED <<now, authVars, urlVars, dashVars, dbVars, logVars, reqVars, sessVars, c2d, c2dFrame, d2cFrame,
                   clientClosed, timer, connVars, envVars, histVars>>

\* A forward to the client that ends the goroutine when the write fails.
DeepgramToClientWrite_returning(r) ==
    /\ d2c[r] = "write"
    /\ \E ok \in WriteResults(clientConn[r]) :
          /\ clientClosed' = [clientClosed EXCEPT ![r] = ~ok]
          /\ toClient' = [toClient EXCEPT ![r] = IF ok THEN Append(@, d2cFrame[r]) ELSE @]
          /\ d2c' = [d2c EXCEPT ![r] = IF ok THEN "read" ELSE "exited"]
    /\ d2cFrame' = [d2cFrame EXCEPT ![r] = NoProviderFrame]
    /\ UNCHANGED <<now, authVars, urlVars, started, dbVars, logVars, reqVars, sessVars, c2d, c2dFrame, timer,
                   connVars, envVars, histVars>>

\* s.clientConn.WriteMessage: a failure only sets clientClosed; the loop goes on.
DeepgramToClientWrite(r) ==
    /\ d2c[r] = "write"
    /\ \E ok \in WriteResults(clientConn[r]) :
          /\ clientClosed' = [clientClosed EXCEPT ![r] = ~ok]
          /\ toClient' = [toClient EXCEPT ![r] = IF ok THEN Append(@, d2cFrame[r]) ELSE @]
    /\ d2c' = [d2c EXCEPT ![r] = "read"]
    /\ d2cFrame' = [d2cFrame EXCEPT ![r] = NoProviderFrame]
    /\ UNCHANGED <<now, authVars, urlVars, started, dbVars, logVars, reqVars, sessVars, c2d, c2dFrame, timer,
                   connVars, envVars, histVars>>

\* ------------------------------------------------------------------ the session timer
\* The time.AfterFunc callback starts closeWithTimeout: under the mutex it
\* reads s.closed and returns if it is set.
closeWithTimeout(r) ==
    /\ mu[r] = "free"
    /\ timer' = [timer EXCEPT ![r] = IF closed[r] THEN "returned" ELSE "writing"]

\* A timer callback that finalizes the row itself, without looking at s.closed.
TimerFire_finalizing(r) ==
    /\ timer[r] = "armed"
    /\ mu[r] = "free"
    /\ timer' = [timer EXCEPT ![r] = "writing"]
    /\ trial_usage' = UpdateUsageTimeout(trial_usage, logID[r], bytesSent[r])
    /\ finalWrites' = [finalWrites EXCEPT ![r] = @ + 1]
    /\ UNCHANGED <<now, authVars, urlVars, dashVars, dbVars, transcription_logs, reqVars, sessVars, loopVars,
                   connVars, envVars, toProvider, observed,
                   lateCapture>>

TimerFire(r) ==
    /\ timer[r] = "armed"
    /\ closeWithTimeout(r)
    /\ UNCHANGED <<now, authVars, urlVars, dashVars, dbVars, logVars, reqVars, sessVars, loopVars, connVars,
                   envVars, histVars>>

\* closeWithTimeout: the close message is written to the client and the
\* client connection closed.
TimerCloseClient(r) ==
    /\ timer[r] = "writing"
    /\ clientConn' = [clientConn EXCEPT ![r] = "closed"]
    /\ timer' = [timer EXCEPT ![r] = "closing"]
    /\ UNCHANGED <<now, authVars, urlVars, dashVars, dbVars, logVars, reqVars, sessVars, loopVars, deepgramConn,
                   envVars, histVars>>

\* A callback that returns without closing the provider connection.
TimerCloseDeepgram_skipped(r) ==
    /\ timer[r] = "closing"
    /\ timer' = [timer EXCEPT ![r] = "returned"]
    /\ UNCHANGED <<now, authVars, urlVars, dashVars, dbVars, logVars, reqVars, sessVars, loopVars, connVars,
                   envVars, histVars>>

\* closeWithTimeout: s.deepgramConn.Close().
TimerCloseDeepgram(r) ==
    /\ timer[r] = "closing"
    /\ deepgramConn' = [deepgramConn EXCEPT ![r] = "closed"]
    /\ timer' = [timer EXCEPT ![r] = "returned"]
    /\ UNCHANGED <<now, authVars, urlVars, dashVars, dbVars, logVars, reqVars, sessVars, loopVars, clientConn,
                   envVars, histVars>>

\* ------------------------------------------------------------------ finalize
\* fmt.Sprintf("%.3f", s.duration): ticks of 0.1 ms rounded to milliseconds.
FormatDuration(ticks) == (ticks + 5) \div 10

\* A finalize that records a session without a duration as an error.
proxySession_finalize_error(r) ==
    IF duration[r] > 0
    THEN UpdateUsageComplete(transcription_logs, logID[r],
                             FormatDuration(duration[r]), bytesSent[r])
    ELSE UpdateUsageError(transcription_logs, logID[r], "no duration", bytesSent[r])

\* proxySession.finalize after it set s.closed: the row of the session in
\* transcription_logs.
proxySession_finalize(r) ==
    IF duration[r] > 0
    THEN UpdateUsageComplete(transcription_logs, logID[r],
                             FormatDuration(duration[r]), bytesSent[r])
    ELSE UpdateUsageTimeout(transcription_logs, logID[r], bytesSent[r])

\* A finalize that records every session the deadline ended as 'timeout'.
trialProxySession_finalize_deadline(r) ==
    IF duration[r] > 0 /\ timer[r] \in {"armed", "stopped"}
    THEN UpdateUsageComplete(trial_usage, logID[r],
                             FormatDuration(duration[r]), bytesSent[r])
    ELSE UpdateUsageTimeout(trial_usage, logID[r], bytesSent[r])

\* A trial finalize that does not record the bytes sent.
trialProxySession_finalize_nobytes(r) ==
    IF duration[r] > 0
    THEN UpdateUsageComplete(trial_usage, logID[r], FormatDuration(duration[r]), 0)
    ELSE UpdateUsageTimeout(trial_usage, logID[r], 0)

\* trialProxySession.finalize after it set s.closed: the row in trial_usage.
trialProxySession_finalize(r) ==
    IF duration[r] > 0
    THEN UpdateUsageComplete(trial_usage, logID[r],
                             FormatDuration(duration[r]), bytesSent[r])
    ELSE UpdateUsageTimeout(trial_usage, logID[r], bytesSent[r])

\* A run() that waits for the client -> provider loop only.
FinalizeBegin_early(r) ==
    /\ pc[r] = "running"
    /\ c2d[r] = "exited"
    /\ mu[r] = "free"
    /\ IF closed[r]
       THEN /\ pc' = [pc EXCEPT ![r] = "returning"]
            /\ UNCHANGED <<closed, mu>>
       ELSE /\ closed' = [closed EXCEPT ![r] = TRUE]
            /\ mu' = [mu EXCEPT ![r] = "run"]
            /\ pc' = [pc EXCEPT ![r] = "finalizing"]
    /\ UNCHANGED <<now, authVars, urlVars, dashVars, dbVars, logVars, apiKey, resp, kind, keyID, logID,
                   maxDuration, bytesSent, duration, loopVars, timer,
                   connVars, envVars, histVars>>

\* wg.Wait() has returned and finalize takes the mutex: if s.closed is set it
\* returns at once, otherwise it sets it and goes on holding the mutex.
FinalizeBegin(r) ==
    /\ pc[r] = "running"
    /\ c2d[r] = "exited"
    /\ d2c[r] = "exited"
    /\ mu[r] = "free"
    /\ IF closed[r]
       THEN /\ pc' = [pc EXCEPT ![r] = "returning"]
            /\ UNCHANGED <<closed, mu>>
       ELSE /\ closed' = [closed EXCEPT ![r] = TRUE]
            /\ mu' = [mu EXCEPT ![r] = "run"]
            /\ pc' = [pc EXCEPT ![r] = "finalizing"]
    /\ UNCHANGED <<now, authVars, urlVars, dashVars, dbVars, logVars, apiKey, resp, kind, keyID, logID,
                   maxDuration, bytesSent, duration, loopVars, timer,
                   connVars, envVars, histVars>>

\* finalize writes the terminal state of the row and releases the mutex.
FinalizeUpdate(r) ==
    /\ pc[r] = "finalizing"
    /\ IF kind[r] = "trial"
       THEN /\ trial_usage' = trialProxySession_finalize(r)
            /\ UNCHANGED transcription_logs
       ELSE /\ transcription_logs' = proxySession_finalize(r)
            /\ UNCHANGED trial_usage
    /\ finalWrites' = [finalWrites EXCEPT ![r] = @ + 1]
    /\ mu' = [mu EXCEPT ![r] = "free"]
    /\ pc' = [pc EXCEPT ![r] = "returning"]
    /\ UNCHANGED <<now, authVars, urlVars, dashVars, dbVars, apiKey, resp, kind, keyID, logID,
                   maxDuration, bytesSent, duration, closed, loopVars, timer,
                   connVars, envVars, toProvider, observed,
                   lateCapture>>

\* A finalize whose UPDATE failed and which clears s.closed to be run again.
FinalizeUpdateFails_reopening(r) ==
    /\ pc[r] = "finalizing"
    /\ finalWrites' = [finalWrites EXCEPT ![r] = @ + 1]
    /\ closed' = [closed EXCEPT ![r] = FALSE]
    /\ mu' = [mu EXCEPT ![r] = "free"]
    /\ pc' = [pc EXCEPT ![r] = "returning"]
    /\ UNCHANGED <<now, authVars, urlVars, dashVars, dbVars, logVars, apiKey, resp, kind, keyID, logID,
                   maxDuration, bytesSent, duration, loopVars, timer,
                   connVars, envVars, toProvider, observed,
                   lateCapture>>

\* finalize when the UPDATE returns an error: the error is dropped
\* (_ = s.queries.Update...), the row is not changed, the mutex is released.
FinalizeUpdateFails(r) ==
    /\ pc[r] = "finalizing"
    /\ finalWrites' = [finalWrites EXCEPT ![r] = @ + 1]
    /\ mu' = [mu EXCEPT ![r] = "free"]
    /\ pc' = [pc EXCEPT ![r] = "returning"]
    /\ UNCHANGED <<now, authVars, urlVars, dashVars, dbVars, logVars, apiKey, resp, kind, keyID, logID,
                   maxDuration, bytesSent, duration, closed, loopVars, timer,
                   connVars, envVars, toProvider, observed,
                   lateCapture>>

\* run() returns (deferred timeout.Stop()), then the handler (deferred
\* deepgramConn.Close() and clientConn.Close()).
RunReturn(r) ==
    /\ pc[r] = "returning"
    /\ timer' = [timer EXCEPT ![r] = IF @ = "armed" THEN "stopped" ELSE @]
    /\ clientConn' = [clientConn EXCEPT ![r] = "closed"]
    /\ deepgramConn' = [deepgramConn EXCEPT ![r] = "closed"]
    /\ pc' = [pc EXCEPT ![r] = "done"]
    /\ UNCHANGED <<now, authVars, urlVars, dashVars, dbVars, logVars, apiKey, resp, kind, keyID, logID,
                   sessVars, loopVars, envVars, histVars>>

\* ------------------------------------------------------------------ the dashboard session
\* "max 10 sessions per hour per user" of the handler's doc comment.
DashboardSessionsPerHour == 10

\* maxDuration: 5 * time.Minute, in milliseconds.
DashboardMaxDuration == 5 * 60 * MsPerSecond

\* DeepgramProxyDashboard up to the upgrade: the JWT claims the middleware
\* left in the context, and DEEPGRAM_API_KEY.  No row is looked up or made.
DeepgramProxyDashboard(r) ==
    /\ pc[r] \in {"new", "responded", "done"}
    /\ timer[r] \notin {"writing", "closing"}
    /\ served < requestBudget
    /\ served' = served + 1
    /\ \E claims \in BOOLEAN, configured \in BOOLEAN :
          /\ pc' = [pc EXCEPT ![r] = IF claims /\ configured THEN "authenticated"
                                                              ELSE "responded"]
          /\ resp' = [resp EXCEPT ![r] =
                         IF ~claims THEN "401 authentication required"
                         ELSE IF ~configured THEN "500 Deepgram not configured"
                         ELSE ""]
    /\ apiKey' = [apiKey EXCEPT ![r] = NoKey]
    /\ kind' = [kind EXCEPT ![r] = "dashboard"]
    /\ keyID' = [keyID EXCEPT ![r] = 0]
    /\ logID' = [logID EXCEPT ![r] = 0]
    /\ maxDuration' = [maxDuration EXCEPT ![r] = 0]
    /\ bytesSent' = [bytesSent EXCEPT ![r] = 0]
    /\ duration' = [duration EXCEPT ![r] = 0]
    /\ closed' = [closed EXCEPT ![r] = FALSE]
    /\ c2d' = [c2d EXCEPT ![r] = "idle"]
    /\ d2c' = [d2c EXCEPT ![r] = "idle"]
    /\ clientClosed' = [clientClosed EXCEPT ![r] = FALSE]
    /\ timer' = [timer EXCEPT ![r] = "none"]
    /\ clientConn' = [clientConn EXCEPT ![r] = "none"]
    /\ deepgramConn' = [deepgramConn EXCEPT ![r] = "none"]
    /\ toProvider' = [toProvider EXCEPT ![r] = <<>>]
    /\ toClient' = [toClient EXCEPT ![r] = <<>>]
    /\ observed' = [observed EXCEPT ![r] = <<>>]
    /\ finalWrites' = [finalWrites EXCEPT ![r] = 0]
    /\ lateCapture' = [lateCapture EXCEPT ![r] = FALSE]
    /\ UNCHANGED <<now, authVars, urlVars, started, dbVars, logVars, mu, c2dFrame, d2cFrame,
                   clientBudget, providerBudget, requestBudget>>

\* h.upgrader.Upgrade: on failure the handler returns the error.
DashboardUpgrade(r) ==
    /\ kind[r] = "dashboard"
    /\ pc[r] = "authenticated"
    /\ \E ok \in BOOLEAN :
          IF ok
          THEN /\ clientConn' = [clientConn EXCEPT ![r] = "open"]
               /\ pc' = [pc EXCEPT ![r] = "upgraded"]
               /\ UNCHANGED resp
          ELSE /\ pc' = [pc EXCEPT ![r] = "responded"]
               /\ resp' = [resp EXCEPT ![r] = "upgrade failed"]
               /\ UNCHANGED clientConn
    /\ UNCHANGED <<now, authVars, urlVars, dashVars, dbVars, logVars, apiKey, kind, keyID, logID,
                   sessVars, loopVars, timer, deepgramConn, envVars, histVars>>

\* dialer.Dial: on failure the client gets a close message and the deferred
\* clientConn.Close() runs; on success the session is built with maxDuration
\* 5 minutes and run() starts the two goroutines and the timer.
DashboardDial(r) ==
    /\ kind[r] = "dashboard"
    /\ pc[r] = "upgraded"
    /\ \E ok \in BOOLEAN :
          IF ok
          THEN /\ deepgramConn' = [deepgramConn EXCEPT ![r] = "open"]
               /\ maxDuration' = [maxDuration EXCEPT ![r] = DashboardMaxDuration]
               /\ c2d' = [c2d EXCEPT ![r] = "read"]
               /\ d2c' = [d2c EXCEPT ![r] = "read"]
               /\ timer' = [timer EXCEPT ![r] = "armed"]
               /\ started' = started + 1
               /\ pc' = [pc EXCEPT ![r] = "running"]
               /\ UNCHANGED <<resp, clientConn>>
          ELSE /\ clientConn' = [clientConn EXCEPT ![r] = "closed"]
               /\ pc' = [pc EXCEPT ![r] = "responded"]
               /\ resp' = [resp EXCEPT ![r] = "1011 Failed to connect to Deepgram"]
               /\ UNCHANGED <<deepgramConn, maxDuration, c2d, d2c, timer, started>>
    /\ UNCHANGED <<now, authVars, urlVars, toClient, dbVars, logVars, apiKey, kind, keyID,
                   logID, bytesSent, duration, closed, mu, c2dFrame, d2cFrame,
                   clientClosed, envVars, histVars>>

\* One ReadMessage of dashboardProxySession.proxyClientToDeepgram that
\* returns a frame; nothing is counted.
DashboardClientRead(r) ==
    /\ kind[r] = "dashboard"
    /\ c2d[r] = "read"
    /\ clientConn[r] = "open"
    /\ clientBudget > 0
    /\ \E f \in ClientFrames : c2dFrame' = [c2dFrame EXCEPT ![r] = f]
    /\ c2d' = [c2d EXCEPT ![r] = "write"]
    /\ clientBudget' = clientBudget - 1
    /\ UNCHANGED <<now, authVars, urlVars, dashVars, dbVars, logVars, reqVars, sessVars, d2c,
                   d2cFrame, clientClosed, timer, connVars, providerBudget,
                   served, requestBudget, histVars>>

\* One ReadMessage of dashboardProxySession.proxyDeepgramToClient that
\* returns a frame; the frame is not parsed.
DashboardProviderRead(r) ==
    /\ kind[r] = "dashboard"
    /\ d2c[r] = "read"
    /\ deepgramConn[r] = "open"
    /\ providerBudget > 0
    /\ \E f \in ProviderFrames : d2cFrame' = [d2cFrame EXCEPT ![r] = f]
    /\ d2c' = [d2c EXCEPT ![r] = "write"]
    /\ providerBudget' = providerBudget - 1
    /\ UNCHANGED <<now, authVars, urlVars, dashVars, dbVars, logVars, reqVars, sessVars, c2d,
                   c2dFrame, clientClosed, timer, connVars, clientBudget,
                   served, requestBudget, histVars>>

\* s.clientConn.WriteMessage(messageType, data): on error the goroutine returns.
DashboardProviderWrite(r) ==
    /\ kind[r] = "dashboard"
    /\ d2c[r] = "write"
    /\ \E ok \in WriteResults(clientConn[r]) :
          /\ toClient' = [toClient EXCEPT ![r] = IF ok THEN Append(@, d2cFrame[r]) ELSE @]
          /\ d2c' = [d2c EXCEPT ![r] = IF ok THEN "read" ELSE "exited"]
    /\ d2cFrame' = [d2cFrame EXCEPT ![r] = NoProviderFrame]
    /\ UNCHANGED <<now, authVars, urlVars, started, dbVars, logVars, reqVars, sessVars, c2d,
                   c2dFrame, clientClosed, timer, connVars, envVars, histVars>>

\* The time.AfterFunc callback enters close(): it takes the mutex, returns if
\* s.closed is set, and sets it otherwise.
DashboardTimerFire(r) ==
    /\ kind[r] = "dashboard"
    /\ timer[r] = "armed"
    /\ mu[r] = "free"
    /\ IF closed[r]
       THEN /\ timer' = [timer EXCEPT ![r] = "returned"]
            /\ UNCHANGED <<closed, mu>>
       ELSE /\ timer' = [timer EXCEPT ![r] = "writing"]
            /\ closed' = [closed EXCEPT ![r] = TRUE]
            /\ mu' = [mu EXCEPT ![r] = "timer"]
    /\ UNCHANGED <<now, authVars, urlVars, dashVars, dbVars, logVars, reqVars, maxDuration,
                   bytesSent, duration, loopVars, connVars, envVars, histVars>>

\* close(): the close message is written to the client and the client
\* connection closed.
DashboardCloseClient(r) ==
    /\ kind[r] = "dashboard"
    /\ timer[r] = "writing"
    /\ clientConn' = [clientConn EXCEPT ![r] = "closed"]
    /\ timer' = [timer EXCEPT ![r] = "closing"]
    /\ UNCHANGED <<now, authVars, urlVars, dashVars, dbVars, logVars, reqVars, sessVars,
                   loopVars, deepgramConn, envVars, histVars>>

\* A close() that leaves the provider connection open.
DashboardCloseDeepgram_skipped(r) ==
    /\ kind[r] = "dashboard"
    /\ timer[r] = "closing"
    /\ timer' = [timer EXCEPT ![r] = "returned"]
    /\ mu' = [mu EXCEPT ![r] = "free"]
    /\ UNCHANGED <<now, authVars, urlVars, dashVars, dbVars, logVars, reqVars, maxDuration,
                   bytesSent, duration, closed, loopVars, connVars, envVars,
                   histVars>>

\* close(): s.deepgramConn.Close(), then the deferred s.mu.Unlock().
DashboardCloseDeepgram(r) ==
    /\ kind[r] = "dashboard"
    /\ timer[r] = "closing"
    /\ deepgramConn' = [deepgramConn EXCEPT ![r] = "closed"]
    /\ timer' = [timer EXCEPT ![r] = "returned"]
    /\ mu' = [mu EXCEPT ![r] = "free"]
    /\ UNCHANGED <<now, authVars, urlVars, dashVars, dbVars, logVars, reqVars, maxDuration,
                   bytesSent, duration, closed, loopVars, clientConn, envVars,
                   histVars>>

\* wg.Wait() returns, run() returns (deferred timeout.Stop()), then the
\* handler (deferred deepgramConn.Close() and clientConn.Close()).
DashboardRunReturn(r) ==
    /\ kind[r] = "dashboard"
    /\ pc[r] = "running"
    /\ c2d[r] = "exited"
    /\ d2c[r] = "exited"
    /\ timer' = [timer EXCEPT ![r] = IF @ = "armed" THEN "stopped" ELSE @]
    /\ clientConn' = [clientConn EXCEPT ![r] = "closed"]
    /\ deepgramConn' = [deepgramConn EXCEPT ![r] = "closed"]
    /\ pc' = [pc EXCEPT ![r] = "done"]
    /\ UNCHANGED <<now, authVars, urlVars, dashVars, dbVars, logVars, apiKey, resp, kind, keyID,
                   logID, sessVars, loopVars, envVars, histVars>>

\* ------------------------------------------------------------------ administration
\* AdminHandler.RevokeTrialKey: UPDATE trial_api_keys SET revoked_at = NOW().
RevokeTrialKey(id) ==
    /\ id \in DOMAIN trial_api_keys
    /\ trial_api_keys' = [trial_api_keys EXCEPT ![id].revoked_at = SetTime]
    /\ UNCHANGED <<now, authVars, urlVars, dashVars, api_keys, trial_limits, regenerations, logVars, reqVars,
                   sessVars, loopVars, timer, connVars, envVars, histVars>>

\* AdminHandler.UnrevokeTrialKey: only a revoked key; SET revoked_at = NULL.
UnrevokeTrialKey(id) ==
    /\ id \in DOMAIN trial_api_keys
    /\ trial_api_keys[id].revoked_at.Valid
    /\ trial_api_keys' = [trial_api_keys EXCEPT ![id].revoked_at = NullTime]
    /\ UNCHANGED <<now, authVars, urlVars, dashVars, api_keys, trial_limits, regenerations, logVars, reqVars,
                   sessVars, loopVars, timer, connVars, envVars, histVars>>

\* AdminHandler.CleanupExpiredTrialKeys: SET revoked_at = NOW() WHERE
\* expires_at <= NOW() AND revoked_at IS NULL.
CleanupExpiredTrialKeys ==
    /\ trial_api_keys' =
           [i \in DOMAIN trial_api_keys |->
               IF trial_api_keys[i].expires_at <= now
                      /\ ~trial_api_keys[i].revoked_at.Valid
               THEN [trial_api_keys[i] EXCEPT !.revoked_at = SetTime]
               ELSE trial_api_keys[i]]
    /\ UNCHANGED <<now, authVars, urlVars, dashVars, api_keys, trial_limits, regenerations, logVars, reqVars,
                   sessVars, loopVars, timer, connVars, envVars, histVars>>

\* A provisioning that regenerates the key of a revoked row as well.
ProvisionTrialKey_revoked(id) ==
    /\ id \in DOMAIN trial_api_keys
    /\ regenerations < 1 + MaxRegenerations
    /\ regenerations' = regenerations + 1
    /\ trial_api_keys' =
           [trial_api_keys EXCEPT
               ![id].key_hash = hashTrialAPIKey(TrialKey(regenerations + 1))]
    /\ UNCHANGED <<now, authVars, urlVars, dashVars, api_keys, trial_limits, logVars, reqVars, sessVars,
                   loopVars, timer, connVars, envVars, histVars>>

\* ProvisionTrialKey for the fingerprint that already has a row
\* (returnExistingTrialKey): refused for a revoked key, otherwise a fresh key
\* is generated and RegenerateTrialAPIKey replaces key_hash.
ProvisionTrialKey(id) ==
    /\ id \in DOMAIN trial_api_keys
    /\ ~trial_api_keys[id].revoked_at.Valid
    /\ regenerations < 1 + MaxRegenerations
    /\ regenerations' = regenerations + 1
    /\ trial_api_keys' =
           [trial_api_keys EXCEPT
               ![id].key_hash = hashTrialAPIKey(TrialKey(regenerations + 1))]
    /\ UNCHANGED <<now, authVars, urlVars, dashVars, api_keys, trial_limits, logVars, reqVars, sessVars,
                   loopVars, timer, connVars, envVars, histVars>>

\* AdminHandler.UpdateTrialLimits: every field must be positive, else 400.
UpdateTrialLimits(req) ==
    /\ trial_limits' =
           IF req.max_duration_seconds <= 0 \/ req.max_sessions <= 0
                  \/ req.max_session_duration_seconds <= 0 \/ req.expiry_days <= 0
           THEN trial_limits
           ELSE req
    /\ UNCHANGED <<now, authVars, urlVars, dashVars, trial_api_keys, api_keys, regenerations, logVars, reqVars,
                   sessVars, loopVars, timer, connVars, envVars, histVars>>

\* DeepgramHandler.RevokeAPIKey: UPDATE api_keys SET revoked_at = NOW().
RevokeAPIKey(id) ==
    /\ id \in DOMAIN api_keys
    /\ api_keys' = [api_keys EXCEPT ![id].revoked_at = SetTime]
    /\ UNCHANGED <<now, authVars, urlVars, dashVars, trial_api_keys, trial_limits, regenerations, logVars,
                   reqVars, sessVars, loopVars, timer, connVars, envVars, histVars>>

\* A day passes.
Tick ==
    /\ now < MaxNow
    /\ now' = now + 1
    /\ UNCHANGED <<dbVars, logVars, reqVars, sessVars, loopVars, timer, connVars,
                   envVars, histVars, urlVars, dashVars, authVars>>

\* ------------------------------------------------------------------ specifications
Handler(r) ==
    \/ DeepgramProxy(r)
    \/ CreateUsageLog(r)
    \/ Upgrade(r)
    \/ Dial(r)
    \/ FinalizeBegin(r)
    \/ FinalizeUpdate(r)
    \/ RunReturn(r)

\* The client's frames on their way to the provider.
Audio(r) ==
    \/ ClientToDeepgramRead(r)
    \/ ClientToDeepgramWrite(r)

Relay(r) ==
    \/ ClientDisconnect(r)
    \/ ProviderClose(r)
    \/ ClientToDeepgramReadError(r)
    \/ DeepgramToClientRead(r)
    \/ DeepgramToClientReadError(r)
    \/ DeepgramToClientWrite(r)
    \/ TimerFire(r)
    \/ TimerCloseClient(r)
    \/ TimerCloseDeepgram(r)

Admin ==
    \/ \E id \in DOMAIN trial_api_keys :
          RevokeTrialKey(id) \/ UnrevokeTrialKey(id) \/ ProvisionTrialKey(id)
    \/ CleanupExpiredTrialKeys
    \/ \E req \in LimitChoices : UpdateTrialLimits(req)
    \/ \E id \in DOMAIN api_keys : RevokeAPIKey(id)
    \/ Tick

Next == \E r \in Serial : Handler(r) \/ Relay(r) \/ Audio(r)

Spec == Init /\ [][Next]_vars

\* SpecLive: Spec with the scheduling the Go runtime gives.  A handler, a
\* goroutine whose next step is its own (a write, the return from a failed
\* read, finalize, the deferred closes) and the timer callback of an armed
\* timer are eventually run.  Nothing obliges a peer to send a frame or to
\* leave, nor a client to send a request.
Fairness ==
    \A r \in Serial :
        /\ WF_vars(CreateUsageLog(r))
        /\ WF_vars(Upgrade(r))
        /\ WF_vars(Dial(r))
        /\ WF_vars(ClientToDeepgramReadError(r))
        /\ WF_vars(ClientToDeepgramWrite(r))
        /\ WF_vars(DeepgramToClientReadError(r))
        /\ WF_vars(DeepgramToClientWrite(r))
        /\ WF_vars(TimerFire(r))
        /\ WF_vars(TimerCloseClient(r))
        /\ WF_vars(TimerCloseDeepgram(r))
        /\ WF_vars(FinalizeBegin(r))
        /\ WF_vars(FinalizeUpdate(r))
        /\ WF_vars(RunReturn(r))

SpecLive == Init /\ [][Next]_vars /\ Fairness

\* SpecAuth: MaxRequests requests one after the other, the administrative
\* operations and the clock.  The client of an admitted session sends no
\* frame before it leaves, and the provider sends at most one frame in all.
InitAuth ==
    /\ InitDB
    /\ InitRequests
    /\ InitQuery
    /\ InitDash
    /\ InitNoRefresh
    /\ served = 0
    /\ requestBudget = MaxRequests
    /\ clientBudget = 0
    /\ providerBudget = 1

NextAuth == (\E r \in Serial : Handler(r) \/ Relay(r)) \/ Admin

SpecAuth == InitAuth /\ [][NextAuth]_vars

\* The URL building on its own: two requests with any inbound query strings,
\* each dialing once.
InitParams ==
    /\ InitDB
    /\ InitRequests
    /\ served = 0
    /\ requestBudget = 0
    /\ clientBudget = 0
    /\ providerBudget = 0
    /\ InitDash
    /\ InitNoRefresh
    /\ query \in [Requests -> InboundQueries]
    /\ upstream = [r \in Requests |-> NoUpstream]

NextParams == \E r \in Requests : DialUpstream(r)

SpecParams == InitParams /\ [][NextParams]_vars

\* Two handler invocations at once, for a trial key that has one completed
\* session of 1.2 s on record.
InitRace ==
    /\ now = 0
    /\ trial_api_keys =
           [i \in {1} |-> [key_hash |-> hashTrialAPIKey(TrialKey(1)),
                           device_fingerprint |-> "device",
                           expires_at |-> 1, revoked_at |-> NullTime]]
    /\ api_keys = [i \in {1} |-> [key_hash |-> hashAPIKey(LiveKey(1)),
                                  revoked_at |-> NullTime]]
    /\ trial_limits = [max_duration_seconds |-> 2, max_sessions |-> 2,
                       max_session_duration_seconds |-> 2, expiry_days |-> 1]
    /\ trial_usage =
           UpdateUsageComplete(
               <<[trial_key_id |-> 1, status |-> "active", ended_at |-> NullTime,
                  duration_seconds |-> NullDecimal, error_message |-> NullString,
                  bytes_sent |-> 0]>>, 1, 1200, 0)
    /\ transcription_logs = <<>>
    /\ regenerations = 1
    /\ InitRequests
    /\ InitQuery
    /\ InitDash
    /\ InitNoRefresh
    /\ served = 0
    /\ requestBudget = MaxRequests
    /\ clientBudget = 0
    /\ providerBudget = 1

NextRace == \E r \in Requests : Handler(r) \/ Relay(r)

SpecRace == InitRace /\ [][NextRace]_vars

\* One dashboard session: DeepgramProxyDashboard and its relay.
DashboardHandler(r) ==
    \/ DeepgramProxyDashboard(r)
    \/ DashboardUpgrade(r)
    \/ DashboardDial(r)
    \/ DashboardRunReturn(r)

DashboardRelay(r) ==
    \/ ClientDisconnect(r)
    \/ ProviderClose(r)
    \/ DashboardClientRead(r)
    \/ ClientToDeepgramReadError(r)
    \/ ClientToDeepgramWrite(r)
    \/ DashboardProviderRead(r)
    \/ DeepgramToClientReadError(r)
    \/ DashboardProviderWrite(r)
    \/ DashboardTimerFire(r)
    \/ DashboardCloseClient(r)
    \/ DashboardCloseDeepgram(r)

NextDash == \E r \in Serial : DashboardHandler(r) \/ DashboardRelay(r)

SpecDash == Init /\ [][NextDash]_vars

\* The steps of the handler, the goroutines and the timer callback go on
\* when they can; the peers and the timer's firing are free.
FairnessDash ==
    \A r \in Serial :
        /\ WF_vars(DashboardUpgrade(r))
        /\ WF_vars(DashboardDial(r))
        /\ WF_vars(ClientToDeepgramReadError(r))
        /\ WF_vars(ClientToDeepgramWrite(r))
        /\ WF_vars(DeepgramToClientReadError(r))
        /\ WF_vars(DashboardProviderWrite(r))
        /\ WF_vars(DashboardCloseClient(r))
        /\ WF_vars(DashboardCloseDeepgram(r))
        /\ WF_vars(DashboardRunReturn(r))

SpecDashLive == Init /\ [][NextDash]_vars /\ FairnessDash

\* One user's dashboard requests one after the other within an hour, one
\* more than the stated limit, with peers that send no frame.
InitDashRate ==
    /\ InitDB
    /\ InitRequests
    /\ InitQuery
    /\ InitDash
    /\ InitNoRefresh
    /\ served = 0
    /\ requestBudget = DashboardSessionsPerHour + 1
    /\ clientBudget = 0
    /\ providerBudget = 0

NextDashRate ==
    \E r \in Serial :
        \/ DashboardHandler(r)
        \/ ClientDisconnect(r)
        \/ ProviderClose(r)
        \/ ClientToDeepgramReadError(r)
        \/ DeepgramToClientReadError(r)
        \/ DashboardTimerFire(r)
        \/ DashboardCloseClient(r)
        \/ DashboardCloseDeepgram(r)

SpecDashRate == InitDashRate /\ [][NextDashRate]_vars

\* Refresh requests of two clients at once: one refresh token was issued at
\* sign-in, its row stored or - storeRefreshToken having failed - not.
InitRefresh ==
    /\ InitDB
    /\ InitRequests
    /\ InitQuery
    /\ InitDash
    /\ served = 0
    /\ requestBudget = 0
    /\ clientBudget = 0
    /\ providerBudget = 0
    /\ tokens \in {<<"stored">>, <<"absent">>}
    /\ refresh = [r \in Requests |-> IdleRefresh]
    /\ refreshedWith = <<0>>
    /\ refreshBudget = MaxRefreshes

NextRefresh == \E r \in Requests : TokenRefresh(r)

SpecRefresh == InitRefresh /\ [][NextRefresh]_vars

\* One session of any of the three kinds, with no deadline firing.
NextEquiv ==
    \E r \in Serial :
        \/ DeepgramProxy(r)
        \/ DeepgramProxyDashboard(r)
        \/ kind[r] \in {"metered", "trial"} /\ CreateUsageLog(r)
        \/ kind[r] \in {"metered", "trial"} /\ Upgrade(r)
        \/ kind[r] \in {"metered", "trial"} /\ Dial(r)
        \/ kind[r] \in {"metered", "trial"} /\ ClientToDeepgramRead(r)
        \/ kind[r] \in {"metered", "trial"} /\ DeepgramToClientRead(r)
        \/ kind[r] \in {"metered", "trial"} /\ DeepgramToClientWrite(r)
        \/ kind[r] \in {"metered", "trial"} /\ FinalizeBegin(r)
        \/ kind[r] \in {"metered", "trial"} /\ FinalizeUpdate(r)
        \/ kind[r] \in {"metered", "trial"} /\ RunReturn(r)
        \/ kind[r] = "dashboard" /\ DashboardUpgrade(r)
        \/ kind[r] = "dashboard" /\ DashboardDial(r)
        \/ kind[r] = "dashboard" /\ DashboardClientRead(r)
        \/ kind[r] = "dashboard" /\ DashboardProviderRead(r)
        \/ kind[r] = "dashboard" /\ DashboardProviderWrite(r)
        \/ kind[r] = "dashboard" /\ DashboardRunReturn(r)
        \/ ClientDisconnect(r)
        \/ ProviderClose(r)
        \/ ClientToDeepgramReadError(r)
        \/ ClientToDeepgramWrite(r)
        \/ DeepgramToClientReadError(r)

SpecEquiv == Init /\ [][NextEquiv]_vars

\* One request at a time, with a database whose terminal UPDATE may fail.
NextPersist ==
    \E r \in Serial :
        \/ Handler(r)
        \/ Relay(r)
        \/ Audio(r)
        \/ FinalizeUpdateFails(r)

SpecPersist == Init /\ [][NextPersist]_vars

\* Requests one after another with the trial limits left alone, and a
\* provider that reports no duration longer than the deadline of the session.
InitQuota ==
    /\ now = 0
    /\ trial_api_keys =
           [i \in {1} |-> [key_hash |-> hashTrialAPIKey(TrialKey(1)),
                           device_fingerprint |-> "device",
                           expires_at |-> 1, revoked_at |-> NullTime]]
    /\ api_keys = [i \in {1} |-> [key_hash |-> hashAPIKey(LiveKey(1)),
                                  revoked_at |-> NullTime]]
    /\ trial_limits = [max_duration_seconds |-> 3, max_sessions |-> 3,
                       max_session_duration_seconds |-> 2, expiry_days |-> 1]
    /\ trial_usage = <<>>
    /\ transcription_logs = <<>>
    /\ regenerations = 1
    /\ InitRequests
    /\ InitQuery
    /\ InitDash
    /\ InitNoRefresh
    /\ served = 0
    /\ requestBudget = MaxRequests + 1
    /\ clientBudget = 0
    /\ providerBudget = MaxRequests + 1

NextQuota ==
    \E r \in Serial :
        \/ Handler(r)
        \/ ClientDisconnect(r)
        \/ ProviderClose(r)
        \/ ClientToDeepgramReadError(r)
        \/ /\ DeepgramToClientRead(r)
           /\ \A i \in DOMAIN observed'[r] : observed'[r][i] <= 10 * maxDuration[r]
        \/ DeepgramToClientReadError(r)
        \/ DeepgramToClientWrite(r)
        \/ TimerFire(r)
        \/ TimerCloseClient(r)
        \/ TimerCloseDeepgram(r)

SpecQuota == InitQuota /\ [][NextQuota]_vars

\* ------------------------------------------------------------------ properties
\* The usage row of the request in slot r.
UsageRow(r) ==
    IF kind[r] = "trial" THEN trial_usage[logID[r]] ELSE transcription_logs[logID[r]]

\* The handler of slot r has left finalize.
Finalized(r) == pc[r] \in {"returning", "done"}

\* C1: the terminal update of a session's row by finalize is made at most
\* once, and exactly once by the time run() has left finalize, whatever the
\* order of the timer callback, the exits of the two loops and the return of
\* run(); s.closed is set, and the update made, by the holder of s.mu, the
\* mutex under which bytesSent and duration change.
C1_FinalizeOnce ==
    /\ [](\A r \in Serial :
             /\ finalWrites[r] <= 1
             /\ Finalized(r) => finalWrites[r] = 1
             /\ pc[r] = "finalizing" => closed[r] /\ mu[r] = "run")
    /\ [][\A r \in Serial :
             /\ closed'[r] /\ ~closed[r] => mu[r] = "free" /\ mu'[r] = "run"
             /\ finalWrites'[r] > finalWrites[r] =>
                    closed[r] /\ mu[r] = "run" /\ mu'[r] = "free"
             /\ bytesSent'[r] > bytesSent[r] \/ duration'[r] > duration[r] =>
                    mu[r] = "free"]_vars

\* A trial session whose timer callback ran to its end has returned, its row
\* finalized by one terminal update.
C1_Witness ==
    \E r \in Serial :
        /\ pc[r] = "done"
        /\ kind[r] = "trial"
        /\ timer[r] = "returned"
        /\ finalWrites[r] = 1
        /\ UsageRow(r).status \in {"completed", "timeout"}

\* C2: a finalized row is 'completed', holding the captured duration (to the
\* millisecond), exactly when the captured duration is greater than zero;
\* otherwise it is 'timeout' with no duration - whether the deadline, the
\* client or the provider ended the session.
C2_StatusByDuration ==
    \A r \in Serial :
        Finalized(r) =>
            LET row == UsageRow(r) IN
            /\ duration[r] > 0 <=> row.status = "completed"
            /\ duration[r] <= 0 <=> row.status = "timeout"
            /\ row.status = "completed" =>
                   /\ row.duration_seconds.Valid
                   /\ 10 * row.duration_seconds.Ms - duration[r] \in -5..5
            /\ row.status = "timeout" => ~row.duration_seconds.Valid

\* The deadline closed both connections of a session that had captured a
\* duration, and its row is 'completed'.
C2_Witness ==
    \E r \in Serial :
        /\ pc[r] = "returning"
        /\ timer[r] = "returned"
        /\ clientConn[r] = "closed"
        /\ deepgramConn[r] = "closed"
        /\ duration[r] > 0
        /\ UsageRow(r).status = "completed"

\* The bytes of the binary frames in a sequence of frames.
BinaryBytes(frames) ==
    SumSeq([i \in 1..Len(frames) |->
               IF frames[i].mt = "binary" THEN frames[i].len ELSE 0])

\* C3: the bytes_sent of a finalized row is the sum of the lengths of the
\* binary frames the session wrote to the provider (text frames add nothing),
\* and s.bytesSent never decreases while the session runs.
C3_BytesForwarded ==
    /\ [](\A r \in Serial :
             Finalized(r) => UsageRow(r).bytes_sent = BinaryBytes(toProvider[r]))
    /\ [][\A r \in Serial :
             pc[r] = "running" /\ pc'[r] = "running" =>
                 bytesSent'[r] >= bytesSent[r]]_vars

\* C4: the duration of a finalized row is the last duration the provider
\* reported in a text frame the session read (to the millisecond), whatever
\* durations were reported before it.
C4_LastDurationWins ==
    \A r \in Serial :
        Finalized(r) /\ observed[r] # <<>> =>
            LET row == UsageRow(r) IN
            /\ row.duration_seconds.Valid
            /\ 10 * row.duration_seconds.Ms - observed[r][Len(observed[r])] \in -5..5

\* The provider reported two different durations and the session is finalized.
C4_Witness ==
    \E r \in Serial :
        /\ Finalized(r)
        /\ Len(observed[r]) = 2
        /\ observed[r][1] > observed[r][2] + 10
        /\ UsageRow(r).status = "completed"

\* The responses of a handler whose upgrade or dial failed.
ConnectFailures == {"upgrade failed", "1011 Failed to connect to Deepgram"}

\* C10 as claimed: a request has a usage row only once its provider connection
\* has been made, and a request whose dial failed has none.
C10_Claimed ==
    \A r \in Serial :
        /\ logID[r] # 0 => deepgramConn[r] # "none"
        /\ resp[r] = "1011 Failed to connect to Deepgram" => logID[r] = 0

\* C10: the usage row of an admitted request is inserted, 'active', before
\* the upgrade and the dial; when the upgrade or the dial fails the row stays,
\* marked 'error' with a message, no bytes and no duration, and no provider
\* connection exists.
C10_RecordBeforeDial ==
    \A r \in Serial :
        /\ pc[r] \in {"logged", "upgraded"} =>
               /\ logID[r] # 0
               /\ UsageRow(r).status = "active"
               /\ deepgramConn[r] = "none"
        /\ pc[r] = "responded" /\ resp[r] \in ConnectFailures =>
               /\ logID[r] # 0
               /\ UsageRow(r).status = "error"
               /\ UsageRow(r).error_message.Valid
               /\ UsageRow(r).bytes_sent = 0
               /\ ~UsageRow(r).duration_seconds.Valid
               /\ deepgramConn[r] = "none"

\* The dial of an admitted request has failed.
C10_Witness ==
    \E r \in Serial :
        /\ pc[r] = "responded"
        /\ resp[r] = "1011 Failed to connect to Deepgram"
        /\ UsageRow(r).status = "error"

\* ------------------------------------------------------------------ admission properties
\* The step in which a request arrives in slot r and is authorized or rejected.
Arrival(r) ==
    /\ pc[r] \in {"new", "responded", "done"}
    /\ served' = served + 1
    /\ pc'[r] \in {"authorized", "responded"}

\* The stored rows whose digest is that of the presented key.
TrialRowsOf(key) ==
    {i \in DOMAIN trial_api_keys : trial_api_keys[i].key_hash = hashTrialAPIKey(key)}

LiveRowsOf(key) ==
    {i \in DOMAIN api_keys : api_keys[i].key_hash = hashAPIKey(key)}

Missing(key) == key.len = 0

Unknown(key) ==
    /\ key.len > 0
    /\ IF IsTrialKey(key) THEN TrialRowsOf(key) = {} ELSE LiveRowsOf(key) = {}

Revoked(key) ==
    IF IsTrialKey(key)
    THEN \E i \in TrialRowsOf(key) : trial_api_keys[i].revoked_at.Valid
    ELSE \E i \in LiveRowsOf(key) : api_keys[i].revoked_at.Valid

Expired(key) ==
    IsTrialKey(key) /\ \E i \in TrialRowsOf(key) : trial_api_keys[i].expires_at < now

\* The quota of a trial key as the limits and its completed and timed-out
\* sessions give it.
QuotaExhausted(key) ==
    /\ IsTrialKey(key)
    /\ \E i \in TrialRowsOf(key) :
          LET used == GetTrialUsageSummaryActive(i) IN
          \/ trial_limits.max_duration_seconds * MsPerSecond <= used.total_duration_ms
          \/ trial_limits.max_sessions <= used.total_sessions

\* The rejections of the error taxonomy, as the handlers answer them.
StructuredRejections ==
    {"401 API key required", "401 invalid API key", "401 invalid trial key",
     "403 trial key expired", "403 trial key revoked", "403 trial quota exceeded"}

\* C5 as claimed: a request whose key is missing, unknown, revoked, expired
\* or out of quota is answered with a rejection of the taxonomy before the
\* upgrade, and no usage row and no connection is made for it.
C5_Claimed ==
    [][\A r \in Serial :
          LET key == apiKey'[r] IN
          Arrival(r) /\ (Missing(key) \/ Unknown(key) \/ Revoked(key)
                            \/ Expired(key) \/ QuotaExhausted(key)) =>
              /\ pc'[r] = "responded"
              /\ resp'[r] \in StructuredRejections
              /\ trial_usage' = trial_usage
              /\ transcription_logs' = transcription_logs
              /\ logID'[r] = 0
              /\ clientConn'[r] = "none"
              /\ deepgramConn'[r] = "none"]_vars

\* C6: whatever revocations, unrevocations, cleanups, regenerations and days
\* came before, a request presenting a key whose row is revoked, or whose
\* expires_at is in the past, is rejected and inserts no usage row.
C6_RevokedOrExpiredRejected ==
    [][\A r \in Serial :
          LET key == apiKey'[r] IN
          Arrival(r) /\ (Revoked(key) \/ Expired(key)) =>
              /\ pc'[r] = "responded"
              /\ resp'[r] # ""
              /\ trial_usage' = trial_usage
              /\ transcription_logs' = transcription_logs
              /\ logID'[r] = 0]_vars

\* A request was rejected as expired while the row of its key is not revoked
\* and no usage row exists.
C6_Witness ==
    \E r \in Serial :
        /\ pc[r] = "responded"
        /\ resp[r] = "403 trial key expired"
        /\ \E i \in TrialRowsOf(apiKey[r]) :
              /\ ~trial_api_keys[i].revoked_at.Valid
              /\ trial_api_keys[i].expires_at < now
        /\ trial_usage = <<>>

\* The presented key is a trial key whose row is neither revoked nor past
\* its expiry.
ValidTrialKey(key) ==
    /\ IsTrialKey(key)
    /\ TrialRowsOf(key) # {}
    /\ ~Revoked(key)
    /\ ~Expired(key)

TrialRowOf(key) == CHOOSE i \in TrialRowsOf(key) : TRUE

\* remainingDuration (ms) and remainingSessions for given limits and usage.
RemainingDuration(limits, used) ==
    Max(0, limits.max_duration_seconds * MsPerSecond - used.total_duration_ms)

RemainingSessions(limits, used) == Max(0, limits.max_sessions - used.total_sessions)

\* C7: a request with a valid trial key is rejected with QuotaExceeded
\* exactly when remainingDuration <= 0 or remainingSessions <= 0, both
\* computed from the limits and the usage aggregate the request reads.
C7_QuotaExceededIff ==
    [][\A r \in Serial :
          LET key == apiKey'[r] IN
          Arrival(r) /\ ValidTrialKey(key) =>
              LET used == GetTrialUsageSummary(TrialRowOf(key)) IN
              (pc'[r] = "responded" /\ resp'[r] = "403 trial quota exceeded")
                  <=> \/ RemainingDuration(trial_limits, used) <= 0
                      \/ RemainingSessions(trial_limits, used) <= 0]_vars

\* A request with a valid trial key was rejected for its quota while the key
\* has used up its sessions but not its duration.
C7_Witness ==
    \E r \in Serial :
        /\ pc[r] = "responded"
        /\ resp[r] = "403 trial quota exceeded"
        /\ ValidTrialKey(apiKey[r])
        /\ LET used == GetTrialUsageSummary(TrialRowOf(apiKey[r])) IN
           /\ RemainingSessions(trial_limits, used) = 0
           /\ RemainingDuration(trial_limits, used) > 0

\* C8 as claimed: the deadline of an admitted trial session is
\* min(maxSessionDuration, remainingDuration), to the millisecond.
C8_Claimed ==
    [][\A r \in Serial :
          LET key == apiKey'[r] IN
          Arrival(r) /\ ValidTrialKey(key) /\ pc'[r] = "authorized" =>
              LET used == GetTrialUsageSummary(TrialRowOf(key)) IN
              maxDuration'[r] =
                  Min(trial_limits.max_session_duration_seconds * MsPerSecond,
                      RemainingDuration(trial_limits, used))]_vars

\* C9 as claimed: the quota decision for a valid trial key is the one that
\* the key's 'completed' and 'timeout' rows give; 'active' and 'error' rows
\* take nothing from remainingSessions or remainingDuration.
C9_Claimed ==
    [][\A r \in Serial :
          LET key == apiKey'[r] IN
          Arrival(r) /\ ValidTrialKey(key) =>
              LET used == GetTrialUsageSummaryActive(TrialRowOf(key)) IN
              (pc'[r] = "responded" /\ resp'[r] = "403 trial quota exceeded")
                  <=> \/ RemainingDuration(trial_limits, used) <= 0
                      \/ RemainingSessions(trial_limits, used) <= 0]_vars

\* The session of slot r has started its forwarding goroutines.
Streaming(r) == c2d[r] # "idle" \/ d2c[r] # "idle"

\* C11: when the upgrade or the dial fails, the row ends 'error' with a
\* message and bytes_sent 0, neither goroutine is started, no timer is armed
\* and finalize never touches the row; a session that started its goroutines
\* never has an 'error' row.
C11_ErrorIffNoRelay ==
    \A r \in Serial :
        /\ pc[r] = "responded" /\ resp[r] \in ConnectFailures =>
               /\ UsageRow(r).status = "error"
               /\ UsageRow(r).error_message.Valid
               /\ UsageRow(r).error_message.String # ""
               /\ UsageRow(r).bytes_sent = 0
               /\ ~Streaming(r)
               /\ timer[r] = "none"
               /\ finalWrites[r] = 0
        /\ Streaming(r) =>
               /\ UsageRow(r).status \in {"active", "completed", "timeout"}
               /\ ~UsageRow(r).error_message.Valid
               /\ resp[r] \notin ConnectFailures

\* The upgrade of an admitted request has failed.
C11_Witness ==
    \E r \in Serial :
        /\ pc[r] = "responded"
        /\ resp[r] = "upgrade failed"
        /\ UsageRow(r).status = "error"
        /\ ~Streaming(r)

\* C12: once the timer callback of a running trial session has passed its
\* s.closed test, it closes the client and then the provider connection; both
\* goroutines then exit and the session is finalized.  No byte is counted
\* after the client connection is closed, and a session without a captured
\* duration is recorded 'timeout', with no duration and the bytes counted.
C12_DeadlineCloses ==
    /\ [](\A r \in Serial :
             /\ timer[r] \in {"writing", "closing"} => kind[r] = "trial"
             /\ timer[r] = "closing" => clientConn[r] = "closed"
             /\ pc[r] = "running" /\ timer[r] = "returned" =>
                    clientConn[r] = "closed" /\ deepgramConn[r] = "closed"
             /\ Finalized(r) /\ kind[r] = "trial" /\ duration[r] = 0 =>
                    /\ UsageRow(r).status = "timeout"
                    /\ ~UsageRow(r).duration_seconds.Valid
                    /\ UsageRow(r).bytes_sent = bytesSent[r])
    /\ [][\A r \in Serial :
             clientConn[r] = "closed" /\ pc[r] = "running" =>
                 bytesSent'[r] = bytesSent[r]]_vars
    /\ \A r \in Serial :
           timer[r] = "writing" ~>
               (c2d[r] = "exited" /\ d2c[r] = "exited" /\ Finalized(r))

\* The deadline closed both connections of a trial session that had counted
\* bytes and captured no duration; its row is 'timeout'.
C12_Witness ==
    \E r \in Serial :
        /\ pc[r] = "returning"
        /\ kind[r] = "trial"
        /\ timer[r] = "returned"
        /\ clientConn[r] = "closed"
        /\ deepgramConn[r] = "closed"
        /\ bytesSent[r] > 0
        /\ UsageRow(r).status = "timeout"
        /\ UsageRow(r).bytes_sent = bytesSent[r]

\* The client's CloseStream has been written to the provider, the provider
\* has reported a duration and has closed its connection.
GracefulFinish(r) ==
    /\ \E i \in 1..Len(toProvider[r]) : toProvider[r][i] = CloseStreamFrame
    /\ observed[r] # <<>>
    /\ deepgramConn[r] = "gone"

\* C13 as claimed: after a graceful finish both goroutines exit and the
\* session is finalized, its row terminal, whether or not the client sends
\* another frame or disconnects.
C13_Claimed ==
    \A r \in Serial :
        GracefulFinish(r) ~>
            /\ c2d[r] = "exited"
            /\ d2c[r] = "exited"
            /\ Finalized(r)
            /\ UsageRow(r).status \in {"completed", "timeout"}

\* The session has written the client's CloseStream frame to the provider
\* and its downstream goroutine is still running.
Draining(r) ==
    /\ pc[r] = "running"
    /\ c2d[r] # "exited"
    /\ \E i \in 1..Len(toProvider[r]) : toProvider[r][i] = CloseStreamFrame

\* C14 as claimed: once the sentinel read from the client has been forwarded,
\* the downstream goroutine reads no further client frame: nothing more is
\* counted in bytesSent and nothing more is written to the provider.
C14_Claimed ==
    [][\A r \in Serial :
          Draining(r) =>
              /\ c2d'[r] # "write"
              /\ bytesSent'[r] = bytesSent[r]
              /\ toProvider'[r] = toProvider[r]]_vars

\* The client's sentinel has been written to the provider.
SentinelForwarded(r) ==
    \E i \in 1..Len(toProvider[r]) : toProvider[r][i] = CloseStreamFrame

\* The timer callback of the session has started closing its connections.
DeadlineFired(r) == timer[r] \in {"writing", "closing", "returned"}

C16_SentinelOnDisconnect ==
    /\ [][\A r \in Serial :
             c2d[r] = "read" /\ c2d'[r] = "exited" =>
                 /\ clientConn[r] \in {"gone", "closed"}
                 /\ \/ toProvider'[r] = Append(toProvider[r], CloseStreamFrame)
                    \/ /\ toProvider'[r] = toProvider[r]
                       /\ deepgramConn[r] # "open"]_vars
    /\ [](\A r \in Serial :
             Finalized(r) /\ clientConn[r] = "gone" =>
                 /\ UsageRow(r).status = IF duration[r] > 0 THEN "completed"
                                                            ELSE "timeout"
                 /\ ~UsageRow(r).error_message.Valid)

\* A client that sent no frame has gone, the session's own CloseStream is
\* all the provider was sent, and the row is finalized.
C16_Witness ==
    \E r \in Serial :
        /\ Finalized(r)
        /\ clientConn[r] = "gone"
        /\ clientBudget = MaxClientFrames
        /\ toProvider[r] = <<CloseStreamFrame>>
        /\ UsageRow(r).status = "completed"

\* C17: once a forward to the client has failed, the upstream goroutine
\* never writes to the client again and stays in its read loop, which it
\* leaves only because the read from the provider failed; a duration read
\* from the provider after the failure becomes the session's duration and
\* is the one the finalized row holds.
C17_ReadsOnAfterClientLoss ==
    /\ [](\A r \in Serial :
             /\ clientClosed[r] => d2c[r] \in {"read", "exited"}
             /\ Finalized(r) /\ lateCapture[r] =>
                    /\ UsageRow(r).status = "completed"
                    /\ UsageRow(r).duration_seconds.Valid
                    /\ 10 * UsageRow(r).duration_seconds.Ms
                           - observed[r][Len(observed[r])] \in -5..5)
    /\ [][\A r \in Serial :
             /\ d2c[r] # "exited" /\ d2c'[r] = "exited" =>
                    d2c[r] = "read" /\ deepgramConn[r] \in {"gone", "closed"}
             /\ clientClosed[r] /\ Streaming(r) /\ Streaming(r)' =>
                    clientClosed'[r]
             /\ lateCapture'[r] /\ ~lateCapture[r] =>
                    /\ clientClosed[r]
                    /\ d2c[r] = "read" /\ d2c'[r] = "read"
                    /\ duration'[r] = observed'[r][Len(observed'[r])]]_vars

\* A forward to the client failed before any duration had been reported, the
\* provider's duration came afterwards, and the finalized row is 'completed'.
C17_Witness ==
    \E r \in Serial :
        /\ Finalized(r)
        /\ clientClosed[r]
        /\ lateCapture[r]
        /\ Len(observed[r]) = 1
        /\ UsageRow(r).status = "completed"

\* The keys a server reads in a URL: the tokens that follow "?" or "&".
UpstreamKeys(url) ==
    {url[i] : i \in {j \in 2..Len(url) : url[j - 1] \in {"?", "&"}}}

\* C18: the URL and the Authorization header given to the dialer are a
\* function of the whitelisted parameters with a non-empty value and of the
\* configured provider key: the keys of the URL are exactly those parameters,
\* never api_key or another name, the client's credential is in neither the
\* URL nor the header, and two requests that agree on the first value of
\* every whitelisted parameter dial the same URL with the same header.
C18_UpstreamFromWhitelist ==
    /\ \A r \in Requests :
           upstream[r] # NoUpstream =>
               /\ UpstreamKeys(upstream[r].url) =
                      {n \in Range(allowedParams) : Get(query[r], n) # <<>>}
               /\ UpstreamKeys(upstream[r].url) \cap {"api_key", "callback"} = {}
               /\ Range(ClientCredential) \cap Range(upstream[r].url) = {}
               /\ upstream[r].Authorization = <<"Token ", DEEPGRAM_API_KEY>>
    /\ \A r1, r2 \in Requests :
           /\ upstream[r1] # NoUpstream
           /\ upstream[r2] # NoUpstream
           /\ \A n \in Range(allowedParams) : Get(query[r1], n) = Get(query[r2], n)
           => upstream[r1] = upstream[r2]

\* Two requests, one with a credential and a foreign parameter and one
\* without, whose model parameter has the same first value, a text holding
\* "&callback=x", have dialed the same URL with one key.
C18_Witness ==
    /\ upstream[1] # NoUpstream
    /\ upstream[2] = upstream[1]
    /\ query[1]["api_key"] = <<ClientCredential>>
    /\ query[2]["api_key"] = <<>>
    /\ query[1]["callback"] # <<>>
    /\ query[2]["callback"] = <<>>
    /\ Len(query[1]["model"]) = 2
    /\ Len(query[2]["model"]) = 1
    /\ Get(query[1], "model") # <<>>
    /\ UpstreamKeys(upstream[1].url) = {"model"}
    /\ Len(upstream[1].url) = 9

\* The rows of trial_usage that belong to a key row.
UsageRowsOf(id) == {i \in DOMAIN trial_usage : trial_usage[i].trial_key_id = id}

\* Slot r holds a trial session that was admitted for key row id.
AdmittedFor(r, id) ==
    /\ kind[r] = "trial"
    /\ keyID[r] = id
    /\ pc[r] \notin {"new", "responded"}

\* C19: each request is admitted on the aggregate as it is read at its own
\* arrival (sessions and duration on record both below the limits), and
\* nothing is reserved between that read and the insertion of its row, so a
\* key can come to hold more rows than max_sessions, though never more than
\* max_sessions plus one per further concurrent request - and with two
\* concurrent requests it does get there.
C19_AdmittedOnOwnRead ==
    /\ [][\A r \in Requests :
             Arrival(r) /\ pc'[r] = "authorized" /\ kind'[r] = "trial" =>
                 /\ Cardinality(UsageRowsOf(keyID'[r])) < trial_limits.max_sessions
                 /\ GetTrialUsageSummary(keyID'[r]).total_duration_ms
                        < trial_limits.max_duration_seconds * MsPerSecond]_vars
    /\ [](\A id \in DOMAIN trial_api_keys :
             Cardinality(UsageRowsOf(id))
                 <= trial_limits.max_sessions + Cardinality(Requests) - 1)

\* Both slots hold an admitted session of the same trial key, each with a
\* row of its own, and the key has more rows than max_sessions.
C19_Witness ==
    /\ AdmittedFor(1, 1)
    /\ AdmittedFor(2, 1)
    /\ logID[1] > 0
    /\ logID[2] > 0
    /\ logID[1] # logID[2]
    /\ clientConn[1] = "open"
    /\ clientConn[2] = "open"
    /\ Cardinality(UsageRowsOf(1)) > trial_limits.max_sessions

\* The answers that say no stored record matches the presented key.
UnauthenticatedAnswers == {"401 invalid API key", "401 invalid trial key"}

\* C20 as claimed: a key long enough to be looked up is answered
\* Unauthenticated when no stored row has its digest, Revoked when its row
\* has revoked_at set, Expired when its row is past expires_at; a revoked
\* key is never answered as Unauthenticated.
C20_Claimed ==
    [][\A r \in Serial :
          LET key == apiKey'[r] IN
          Arrival(r) /\ key.len >= 16 =>
              /\ Unknown(key) => resp'[r] \in UnauthenticatedAnswers
              /\ Expired(key) /\ ~Revoked(key) => resp'[r] = "403 trial key expired"
              /\ Revoked(key) /\ ~Expired(key) =>
                     /\ resp'[r] \notin UnauthenticatedAnswers
                     /\ IsTrialKey(key) => resp'[r] = "403 trial key revoked"]_vars

\* C21 as claimed: a request presenting a non-empty key of any length that
\* matches no stored row is answered with the Unauthenticated rejection,
\* never with an internal failure.
C21_Claimed ==
    [][\A r \in Serial :
          LET key == apiKey'[r] IN
          Arrival(r) /\ Unknown(key) =>
              /\ pc'[r] = "responded"
              /\ resp'[r] \in UnauthenticatedAnswers]_vars

\* C22: a dashboard session inserts and updates no row of trial_usage or
\* transcription_logs, whatever frames pass and however it ends; its timer
\* is armed with 5 minutes, and once the timer's close() has begun both
\* connections get closed, the closing sequence running at most once.
C22_DashboardUnrecordedAndCapped ==
    /\ [][trial_usage' = trial_usage /\ transcription_logs' = transcription_logs]_vars
    /\ [](\A r \in Serial :
             /\ kind[r] = "dashboard" /\ timer[r] # "none" =>
                    maxDuration[r] = DashboardMaxDuration
             /\ timer[r] \in {"writing", "closing"} => closed[r]
             /\ timer[r] = "returned" /\ closed[r] =>
                    clientConn[r] = "closed" /\ deepgramConn[r] = "closed")
    /\ [][\A r \in Serial :
             /\ timer[r] # "writing" /\ timer'[r] = "writing" =>
                    timer[r] = "armed" /\ ~closed[r]
             /\ closed[r] /\ pc'[r] = pc[r] => closed'[r]]_vars
    /\ \A r \in Serial :
           timer[r] = "writing" ~>
               (timer[r] = "returned" /\ clientConn[r] = "closed"
                    /\ deepgramConn[r] = "closed")

\* The timer of a dashboard session that had relayed frames both ways has
\* closed both connections; no usage row exists.
C22_Witness ==
    \E r \in Serial :
        /\ kind[r] = "dashboard"
        /\ timer[r] = "returned"
        /\ closed[r]
        /\ toProvider[r] # <<>>
        /\ toClient[r] # <<>>
        /\ clientConn[r] = "closed"
        /\ deepgramConn[r] = "closed"
        /\ trial_usage = <<>>
        /\ transcription_logs = <<>>

\* The step in which DeepgramProxyDashboard takes a request in slot r.
DashboardArrival(r) ==
    /\ pc[r] \in {"new", "responded", "done"}
    /\ served' = served + 1
    /\ kind'[r] = "dashboard"

\* C24 as claimed: a dashboard request of a user who has started 10
\* dashboard sessions within the hour is rejected.
C24_Claimed ==
    [][\A r \in Serial :
          DashboardArrival(r) /\ started >= DashboardSessionsPerHour =>
              /\ pc'[r] = "responded"
              /\ resp'[r] # ""]_vars

\* C23 as claimed: a refresh token is single-use - no token_jti is ever
\* accepted by more than one TokenRefresh request, and a request presenting
\* a token that another request has succeeded with is answered 401.
C23_Claimed ==
    /\ [](\A jti \in DOMAIN refreshedWith : refreshedWith[jti] <= 1)
    /\ [][\A r \in Requests :
             /\ refresh[r].pc \in {"idle", "done"}
             /\ refresh'[r].pc \notin {"idle", "done"}
             => refreshedWith[refresh'[r].jti] = 0]_vars

\* What one step may do to the client -> provider loop of slot r and to the
\* frames the provider has been written, whatever the kind of the session:
\* a frame read is forwarded next, a failed forward or a failed read ends the
\* loop, the failed read after one attempt to write CloseStream.
DownstreamStep(r) ==
    /\ toProvider'[r] # toProvider[r] => c2d[r] \in {"read", "write"}
    /\ c2d[r] = "idle" => c2d'[r] \in {"idle", "read"}
    /\ c2d[r] = "read" =>
           \/ c2d'[r] = "read"
           \/ /\ c2d'[r] = "write"
              /\ clientConn[r] = "open"
              /\ c2dFrame'[r] \in ClientFrames
              /\ toProvider'[r] = toProvider[r]
           \/ /\ c2d'[r] = "exited"
              /\ clientConn[r] # "open"
              /\ toProvider'[r] \in {toProvider[r],
                                     Append(toProvider[r], CloseStreamFrame)}
    /\ c2d[r] = "write" =>
           \/ c2d'[r] = "write"
           \/ /\ c2d'[r] = "read"
              /\ toProvider'[r] = Append(toProvider[r], c2dFrame[r])
           \/ /\ c2d'[r] = "exited"
              /\ deepgramConn[r] # "open"
              /\ toProvider'[r] = toProvider[r]
    /\ c2d[r] = "exited" => c2d'[r] = "exited"

\* Likewise for the provider -> client loop and the frames the client has
\* been written: a frame read is forwarded next, unless a forward has failed
\* before; only a failed read ends the loop.
UpstreamStep(r) ==
    /\ toClient'[r] # toClient[r] => d2c[r] = "write"
    /\ d2c[r] = "idle" => d2c'[r] \in {"idle", "read"}
    /\ d2c[r] = "read" =>
           \/ d2c'[r] = "read"
           \/ /\ d2c'[r] = "write"
              /\ deepgramConn[r] = "open"
              /\ d2cFrame'[r] \in ProviderFrames
           \/ /\ d2c'[r] = "exited"
              /\ deepgramConn[r] # "open"
    /\ d2c[r] = "write" =>
           \/ d2c'[r] = "write"
           \/ /\ d2c'[r] = "read"
              /\ \/ toClient'[r] = Append(toClient[r], d2cFrame[r])
                 \/ toClient'[r] = toClient[r] /\ clientConn[r] # "open"
    /\ d2c[r] = "exited" => d2c'[r] = "exited"

\* The provider -> client loop of the dashboard session: as UpstreamStep,
\* but a failed forward ends the loop.
UpstreamStepDashboard(r) ==
    /\ toClient'[r] # toClient[r] => d2c[r] = "write"
    /\ d2c[r] = "idle" => d2c'[r] \in {"idle", "read"}
    /\ d2c[r] = "read" =>
           \/ d2c'[r] = "read"
           \/ /\ d2c'[r] = "write"
              /\ deepgramConn[r] = "open"
              /\ d2cFrame'[r] \in ProviderFrames
           \/ /\ d2c'[r] = "exited"
              /\ deepgramConn[r] # "open"
    /\ d2c[r] = "write" =>
           \/ d2c'[r] = "write"
           \/ /\ d2c'[r] = "read"
              /\ toClient'[r] = Append(toClient[r], d2cFrame[r])
           \/ /\ d2c'[r] = "exited"
              /\ toClient'[r] = toClient[r]
              /\ clientConn[r] # "open"
    /\ d2c[r] = "exited" => d2c'[r] = "exited"

\* The counters of a metered or a trial session and the row finalize writes
\* from them.
Accounting(r) ==
    /\ bytesSent'[r] # bytesSent[r] =>
           /\ c2d[r] = "read" /\ c2d'[r] = "write"
           /\ c2dFrame'[r].mt = "binary"
           /\ bytesSent'[r] = bytesSent[r] + c2dFrame'[r].len
    /\ c2d[r] = "read" /\ c2d'[r] = "write" /\ c2dFrame'[r].mt = "binary" =>
           bytesSent'[r] = bytesSent[r] + c2dFrame'[r].len
    /\ duration'[r] # duration[r] => observed'[r] # observed[r]
    /\ observed'[r] # observed[r] =>
           duration'[r] = observed'[r][Len(observed'[r])]
    /\ Finalized(r)' /\ logID'[r] > 0 =>
           /\ UsageRow(r)'.status = IF duration'[r] > 0 THEN "completed" ELSE "timeout"
           /\ UsageRow(r)'.bytes_sent = bytesSent'[r]
           /\ DurationMs(UsageRow(r)') =
                  IF duration'[r] > 0 THEN FormatDuration(duration'[r]) ELSE 0

\* C25 as claimed: with no deadline firing, the relays of the metered, the
\* trial and the dashboard session take the same steps on the same frames
\* and failures - same frames forwarded, same exits of the loops.
C25_Claimed ==
    [][\A r \in Serial :
          kind'[r] = kind[r] /\ kind[r] # "" =>
              /\ DownstreamStep(r)
              /\ UpstreamStep(r)
              /\ kind[r] # "dashboard" => Accounting(r)]_vars

\* C25, amended: the metered and the trial relay take the same steps and
\* account alike (bytes counted, duration captured, row finalized from
\* them); the dashboard relay forwards as they do and its client ->
\* provider loop exits as theirs, but its provider -> client loop ends at
\* the first failed forward where theirs goes on reading.
C25_RelaysAgree ==
    [][\A r \in Serial :
          kind'[r] = kind[r] /\ kind[r] # "" =>
              /\ DownstreamStep(r)
              /\ kind[r] # "dashboard" => UpstreamStep(r) /\ Accounting(r)
              /\ kind[r] = "dashboard" => UpstreamStepDashboard(r)]_vars

\* A dashboard session whose provider -> client loop has ended at a failed
\* forward, after a frame was forwarded, with the provider still connected.
C25_Witness ==
    \E r \in Serial :
        /\ kind[r] = "dashboard"
        /\ d2c[r] = "exited"
        /\ deepgramConn[r] = "open"
        /\ clientConn[r] # "open"
        /\ toClient[r] # <<>>

\* C26: a finalize whose persistence call fails absorbs the failure: the
\* step leaves the usage tables, the answer to the client, both connections
\* and both loops as they were and keeps s.closed set; finalize issues its
\* UPDATE at most once per session, and once run() is past finalize the
\* row of the session - still 'active' after a failed call - never changes.
C26_FinalizeFailureAbsorbed ==
    /\ [](\A r \in Serial : finalWrites[r] <= 1)
    /\ [][\A r \in Serial :
             /\ pc[r] = "finalizing" /\ pc'[r] # "finalizing" =>
                    /\ closed[r] /\ closed'[r]
                    /\ pc'[r] = "returning"
                    /\ finalWrites'[r] = finalWrites[r] + 1
                    /\ <<resp, connVars, loopVars, timer>>' = <<resp, connVars, loopVars, timer>>
                    /\ \/ logVars' = logVars
                       \/ UsageRow(r)'.status \in {"completed", "timeout"}
             /\ Finalized(r) /\ Finalized(r)' /\ logID'[r] = logID[r] =>
                    /\ closed'[r]
                    /\ finalWrites'[r] = finalWrites[r]
                    /\ UsageRow(r)' = UsageRow(r)]_vars

\* run() has returned from a finalize whose UPDATE failed: the row is still
\* 'active', s.closed is set, one UPDATE was issued.
C26_Witness ==
    \E r \in Serial :
        /\ pc[r] = "done"
        /\ logID[r] > 0
        /\ UsageRow(r).status = "active"
        /\ closed[r]
        /\ finalWrites[r] = 1
        /\ bytesSent[r] > 0

\* C27 as claimed: no two tasks of a session are at a write on the same
\* connection at once: the timer callback is never at its close-message
\* write on the client connection while the provider -> client loop is at
\* its write on it, and only the client -> provider loop writes to the
\* provider connection.
C27_Claimed ==
    /\ [](\A r \in Requests : ~(timer[r] = "writing" /\ d2c[r] = "write"))
    /\ [][\A r \in Requests :
             toProvider'[r] # toProvider[r] /\ pc'[r] = pc[r] =>
                 c2d[r] \in {"read", "write"} /\ timer'[r] = timer[r]]_vars

\* C28: finalize issues its UPDATE only when both loops have exited; the
\* steps of the timer callback write no usage row and do not set s.closed;
\* after the UPDATE neither counter of the session changes, so the row
\* holds the bytes counted and the last duration captured by the loops.
C28_FinalizeAfterLoops ==
    /\ [](\A r \in Serial :
             Finalized(r) /\ logID[r] > 0 =>
                 /\ c2d[r] = "exited" /\ d2c[r] = "exited"
                 /\ UsageRow(r).bytes_sent = bytesSent[r]
                 /\ DurationMs(UsageRow(r)) =
                        IF duration[r] > 0 THEN FormatDuration(duration[r]) ELSE 0
                 /\ observed[r] # <<>> => duration[r] = observed[r][Len(observed[r])])
    /\ [][\A r \in Serial :
             /\ finalWrites'[r] > finalWrites[r] =>
                    /\ c2d[r] = "exited" /\ d2c[r] = "exited"
                    /\ timer'[r] = timer[r]
             /\ /\ timer[r] \in {"armed", "writing", "closing"}
                /\ timer'[r] \in {"writing", "closing", "returned"}
                /\ timer'[r] # timer[r]
                => /\ logVars' = logVars
                   /\ closed' = closed
                   /\ finalWrites' = finalWrites
             /\ finalWrites[r] >= 1 /\ finalWrites'[r] >= 1 =>
                    /\ bytesSent'[r] = bytesSent[r]
                    /\ duration'[r] = duration[r]]_vars

\* A trial session ended by its deadline, after bytes were counted and a
\* duration captured, and finalized with both.
C28_Witness ==
    \E r \in Serial :
        /\ pc[r] = "done"
        /\ kind[r] = "trial"
        /\ timer[r] = "returned"
        /\ finalWrites[r] = 1
        /\ bytesSent[r] > 0
        /\ duration[r] > 0
        /\ UsageRow(r).bytes_sent = bytesSent[r]
        /\ UsageRow(r).status = "completed"

\* C29: with sessions one after another, the trial limits unchanged and a
\* provider that reports no duration longer than the session's deadline,
\* the durations recorded for the credential sum to no more than
\* max_duration_seconds, and no row holds more than its session's deadline.
C29_SumWithinMaxDuration ==
    /\ \A id \in DOMAIN trial_api_keys :
           GetTrialUsageSummary(id).total_duration_ms
               <= trial_limits.max_duration_seconds * MsPerSecond
    /\ \A r \in Serial :
           kind[r] = "trial" /\ logID[r] > 0 =>
               DurationMs(UsageRow(r)) <= maxDuration[r]

\* A second trial session, admitted with what the first left of the quota
\* as its deadline, has recorded a duration of its own.
C29_Witness ==
    \E r \in Serial :
        /\ kind[r] = "trial"
        /\ pc[r] = "done"
        /\ logID[r] >= 2
        /\ maxDuration[r] = 1 * MsPerSecond
        /\ UsageRow(r).status = "completed"
        /\ GetTrialUsageSummary(keyID[r]).total_duration_ms >= 1200

\* The secrets that authenticate as the trial key of row id.
SecretsOf(id) ==
    {key \in PresentedKeys :
         LET res == GetTrialAPIKeyByHash(hashTrialAPIKey(key))
         IN res.found /\ res.id = id}

\* C30: a step that changes the stored digest of a trial key is taken on an
\* unrevoked row only and leaves it unrevoked; after it the secret that
\* authenticated before does not, exactly one secret authenticates for the
\* row, and the row's expiry, the usage rows, the limits and so the usage
\* summary of the credential are as before.  At all times one fingerprint
\* has one row and at most one secret.
C30_Reprovisioning ==
    /\ [](\A id \in DOMAIN trial_api_keys :
             /\ Cardinality(SecretsOf(id)) <= 1
             /\ trial_api_keys[id].revoked_at.Valid => SecretsOf(id) = {}
             /\ \A other \in DOMAIN trial_api_keys :
                    trial_api_keys[other].device_fingerprint
                        = trial_api_keys[id].device_fingerprint => other = id)
    /\ [][\A id \in DOMAIN trial_api_keys :
             trial_api_keys'[id].key_hash # trial_api_keys[id].key_hash =>
                 /\ ~trial_api_keys[id].revoked_at.Valid
                 /\ ~trial_api_keys'[id].revoked_at.Valid
                 /\ SecretsOf(id) \cap SecretsOf(id)' = {}
                 /\ Cardinality(SecretsOf(id)') = 1
                 /\ trial_api_keys'[id].expires_at = trial_api_keys[id].expires_at
                 /\ trial_api_keys'[id].device_fingerprint
                        = trial_api_keys[id].device_fingerprint
                 /\ logVars' = logVars
                 /\ trial_limits' = trial_limits
                 /\ GetTrialUsageSummary(id)' = GetTrialUsageSummary(id)]_vars

\* The key of a device that has used part of its quota was provisioned
\* again: the new secret authenticates, the first one does not.
C30_Witness ==
    \E id \in DOMAIN trial_api_keys :
        /\ regenerations = 2
        /\ SecretsOf(id) = {TrialKey(2)}
        /\ GetTrialUsageSummary(id).total_sessions >= 1
        /\ GetTrialUsageSummary(id).total_duration_ms > 0

====
